---- MODULE Spec2Model ----
(***************************************************************************)
(* VitalTrack backend: the offline-first synchronisation routes            *)
(* (app/api/v1/sync.py) over the SQLAlchemy models of app/models.          *)
(*                                                                         *)
(* Storage is modelled as the three tables categories, items and orders    *)
(* (order lines are kept inside their order).  One request is one action.  *)
(* Inside a request the AsyncSession is modelled with its two views:       *)
(*   D  the rows the database shows to a query in this transaction,        *)
(*   M  the attribute values of the session's objects,                     *)
(* and pend, the objects marked by db.delete() and not flushed yet.  The   *)
(* session is created with autoflush=False (core/database.py), so a query  *)
(* evaluates its WHERE clause on D and returns the object of M; only       *)
(* db.flush() and db.commit() carry M and pend over to D.                  *)
(***************************************************************************)
EXTENDS Integers, Sequences, FiniteSets, TLC

VARIABLES
    categories,   \* committed rows of table categories
    items,        \* committed rows of table items
    orders,       \* committed rows of table orders (with their order_items)
    nextId,       \* the next fresh uuid4 (UUIDMixin.id default)
    pushes,       \* number of sync requests served so far
    last          \* the last sync request served: its input, response and effect

vars == <<categories, items, orders, nextId, pushes, last>>

-----------------------------------------------------------------------------
(* Bounds of the model *)

MaxOps == 2
MaxPushes == 3
MaxRestId == 3

-----------------------------------------------------------------------------
(* Identifiers.  Server ids are uuid4 strings, modelled as the naturals    *)
(* 1, 2, ...; NoId stands for every string that is not a valid uuid (and   *)
(* for None).  Client-local ids are strings that are not server ids.       *)

NoId == 0
Users == {"u1"}
LocalIds == {"a", "b"}
NoLocal == "-"

CATEGORY == "category"
ITEM == "item"
ORDER == "order"
CREATE == "create"
UPDATE == "update"
DELETE == "delete"

\* _is_valid_uuid(val)
IsValidUuid(val) == val # NoId

-----------------------------------------------------------------------------
(* Payloads (SyncOperation.data): None, or a dict holding a subset of the  *)
(* keys.  `keys` is the set of keys present; a field whose key is absent   *)
(* holds a filler that is never read.                                      *)

\* A reference as the client sends it: a server id, or a local id.
Ref(sid, lid) == [sid |-> sid, lid |-> lid]
NoRef == Ref(NoId, NoLocal)

Payload(none, keys, name, categoryId, quantity, orderId, status, lines) ==
    [none |-> none, keys |-> keys, name |-> name, categoryId |-> categoryId,
     quantity |-> quantity, orderId |-> orderId, status |-> status, items |-> lines]

NoneData == Payload(TRUE, {}, "", NoRef, 0, "", "", <<>>)
EmptyDict == Payload(FALSE, {}, "", NoRef, 0, "", "", <<>>)

\* `if op.data:` -- None and the empty dict are both falsy
Truthy(data) == ~data.none /\ data.keys # {}
\* `key in op.data`
Has(data, key) == ~data.none /\ key \in data.keys

SyncOperation(type, entity, entity_id, local_id, data) ==
    [type |-> type, entity |-> entity, entity_id |-> entity_id,
     local_id |-> local_id, data |-> data]

SyncOperationResult(operation_id, success, server_id) ==
    [operation_id |-> operation_id, success |-> success, server_id |-> server_id]

-----------------------------------------------------------------------------
(* Rows *)

Category(id, user_id, local_id, name) ==
    [id |-> id, user_id |-> user_id, local_id |-> local_id, name |-> name]

Item(id, user_id, category_id, local_id, quantity) ==
    [id |-> id, user_id |-> user_id, category_id |-> category_id,
     local_id |-> local_id, quantity |-> quantity]

\* Order.order_id is the human-readable order code; it is UNIQUE over the whole table
OrderCode(base, owner, suffix) == [base |-> base, owner |-> owner, suffix |-> suffix]
ClientCode(base) == OrderCode(base, "", NoId)

Order(id, user_id, order_id, local_id, status, lines) ==
    [id |-> id, user_id |-> user_id, order_id |-> order_id, local_id |-> local_id,
     status |-> status, lines |-> lines]

OrderItem(item_id, quantity) == [item_id |-> item_id, quantity |-> quantity]

OrderStatus == {"pending", "ordered", "partially_received", "received",
                "stock_updated", "declined"}

Tables(cats, its, ords) == [cats |-> cats, items |-> its, orders |-> ords]
NoIds == [cats |-> {}, items |-> {}, orders |-> {}]

\* the object of the session's identity map that a fetched row maps to
Obj(tbl, id) == CHOOSE r \in tbl : r.id = id
Replace(tbl, old, new) == (tbl \ {old}) \cup {new}

-----------------------------------------------------------------------------
(* The AsyncSession of one request *)

Session(cats, its, ords, nid) ==
    [D |-> Tables(cats, its, ords), M |-> Tables(cats, its, ords), pend |-> NoIds,
     nextId |-> nid, ok |-> TRUE, results |-> <<>>, applied |-> <<>>,
     success_count |-> 0, error_count |-> 0,
     pushed |-> [cats |-> {}, items |-> {}, orders |-> {}], orphans |-> NoIds,
     cascaded |-> {}, loaded |-> {}, snapshot |-> Tables({}, {}, {}),
     target |-> [sid |-> NoId, code |-> ClientCode("")]]

\* orders.order_id is String(50); the collision suffix is "-" + user.id[:4] + "-" + 8 characters
OrderIdMaxLen == 50
SuffixLen == 14

\* the length of a client's order code: "L" stands for a code of 40 characters
BaseLen(base) == IF base = "L" THEN 40 ELSE 17
CodeLen(code) == BaseLen(code.base) + (IF code.suffix # NoId THEN SuffixLen ELSE 0)

\* items.category_id is NOT NULL: an INSERT or UPDATE carrying None fails;
\* orders.order_id is UNIQUE and holds at most OrderIdMaxLen characters
FlushFails(s) ==
    \/ \E i \in s.M.items : i.category_id = NoId
    \/ \E o \in s.M.orders : CodeLen(o.order_id) > OrderIdMaxLen
    \/ \E o1, o2 \in s.M.orders : o1.id # o2.id /\ o1.order_id = o2.order_id

\* db.flush(): INSERTs and UPDATEs first, then the DELETEs of the objects marked
\* by db.delete(); the foreign keys items.category_id and order_items.order_id
\* are ON DELETE CASCADE.  A failing flush rolls the transaction back and leaves
\* the session unusable until rollback() (every later call raises).
Flush(s) ==
    IF ~s.ok \/ FlushFails(s) THEN [s EXCEPT !.ok = FALSE]
    ELSE LET T == Tables(
                 {c \in s.M.cats : c.id \notin s.pend.cats},
                 {i \in s.M.items : i.id \notin s.pend.items
                                     /\ i.category_id \notin s.pend.cats},
                 {o \in s.M.orders : o.id \notin s.pend.orders})
         IN [s EXCEPT !.D = T, !.M = T, !.pend = NoIds]

\* db.delete(category): marks the category and, by the relationship
\* Category.items (cascade="all, delete-orphan", lazy="selectin"), the items of
\* its collection, which was loaded from the rows of the database
DeleteCategory(s, c) ==
    [s EXCEPT !.pend.cats = @ \cup {c.id},
              !.pend.items = @ \cup {i.id : i \in {j \in s.D.items : j.category_id = c.id}}]

DeleteItem(s, i) == [s EXCEPT !.pend.items = @ \cup {i.id}]
DeleteOrder(s, o) == [s EXCEPT !.pend.orders = @ \cup {o.id}]

\* the handler returns a successful result: results.append(result); success_count += 1
Succeed(s, opid, server_id) ==
    [s EXCEPT !.results = Append(@, SyncOperationResult(opid, TRUE, server_id)),
              !.success_count = @ + 1]
\* (mutant) the except branch appends the failed result and forgets to count it
RaiseUncounted(s, opid) ==
    [s EXCEPT !.results = Append(@, SyncOperationResult(opid, FALSE, NoId))]

\* the handler raises: `except Exception` appends a failed result; error_count += 1
Raise(s, opid) ==
    [s EXCEPT !.results = Append(@, SyncOperationResult(opid, FALSE, NoId)),
              !.error_count = @ + 1]

-----------------------------------------------------------------------------
(* _sync_category *)

\* select(Category).where(user_id == u, local_id == local_id)
CategoryByLocal(s, u, local_id) ==
    {c \in s.D.cats : c.user_id = u /\ c.local_id = local_id}

\* select(Category).where(user_id == u, or_(id == entity_id if valid uuid, local_id == local_id))
CategoryByIdOrLocal(s, u, entity_id, local_id) ==
    {c \in s.D.cats : c.user_id = u
        /\ ((IsValidUuid(entity_id) /\ c.id = entity_id) \/ c.local_id = local_id)}

\* the CREATE branch on an existing category: only the keys present are written
UpsertCategory(c, data) ==
    IF Truthy(data) /\ Has(data, "name") THEN [c EXCEPT !.name = data.name] ELSE c

\* the UPDATE branch: for key in op.data: setattr(category, _camel_to_snake(key), value)
\* writes every key that names an attribute of Category, "userId" (user_id) included
SetCategoryAttrs(c, data) ==
    LET c1 == IF Truthy(data) /\ Has(data, "name") THEN [c EXCEPT !.name = data.name] ELSE c
    IN IF Truthy(data) /\ Has(data, "userId") THEN [c1 EXCEPT !.user_id = data.userId] ELSE c1

SyncCategoryCreate(s, u, opid, op) ==
    LET found == CategoryByLocal(s, u, op.local_id) IN
    IF Cardinality(found) > 1 THEN Raise(s, opid)            \* MultipleResultsFound
    ELSE IF found # {} THEN
        LET c == Obj(s.M.cats, (CHOOSE r \in found : TRUE).id) IN
        Succeed([s EXCEPT !.M.cats = Replace(@, c, UpsertCategory(c, op.data))], opid, c.id)
    ELSE IF op.data.none THEN Raise(s, opid)                 \* None.get(...)
    ELSE
        LET c == Category(s.nextId, u, op.local_id,
                          IF Has(op.data, "name") THEN op.data.name ELSE "Untitled")
            f == Flush([s EXCEPT !.M.cats = @ \cup {c}, !.nextId = @ + 1])
        IN IF f.ok THEN Succeed(f, opid, c.id) ELSE Raise(f, opid)

SyncCategoryUpdate(s, u, opid, op) ==
    LET found == CategoryByIdOrLocal(s, u, op.entity_id, op.local_id) IN
    IF Cardinality(found) > 1 THEN Raise(s, opid)
    ELSE IF found = {} THEN SyncCategoryCreate(s, u, opid, op)   \* treat as create
    ELSE
        LET c == Obj(s.M.cats, (CHOOSE r \in found : TRUE).id) IN
        Succeed([s EXCEPT !.M.cats = Replace(@, c, SetCategoryAttrs(c, op.data))], opid, c.id)

\* (mutant) a DELETE whose target is not found is an error
SyncCategoryDeleteStrict(s, u, opid, op) ==
    LET found == CategoryByIdOrLocal(s, u, op.entity_id, op.local_id) IN
    IF Cardinality(found) # 1 THEN Raise(s, opid)
    ELSE Succeed(DeleteCategory(s, CHOOSE r \in found : TRUE), opid, NoId)

SyncCategoryDelete(s, u, opid, op) ==
    LET found == CategoryByIdOrLocal(s, u, op.entity_id, op.local_id) IN
    IF Cardinality(found) > 1 THEN Raise(s, opid)
    ELSE IF found = {} THEN Succeed(s, opid, NoId)
    ELSE Succeed(DeleteCategory(s, CHOOSE r \in found : TRUE), opid, NoId)

SyncCategory(s, u, opid, op) ==
    CASE op.type = CREATE -> SyncCategoryCreate(s, u, opid, op)
      [] op.type = UPDATE -> SyncCategoryUpdate(s, u, opid, op)
      [] op.type = DELETE -> SyncCategoryDelete(s, u, opid, op)

-----------------------------------------------------------------------------
(* _sync_item *)

ItemByLocal(s, u, local_id) ==
    {i \in s.D.items : i.user_id = u /\ i.local_id = local_id}

ItemByIdOrLocal(s, u, entity_id, local_id) ==
    {i \in s.D.items : i.user_id = u
        /\ ((IsValidUuid(entity_id) /\ i.id = entity_id) \/ i.local_id = local_id)}

\* cat_id = op.data.get("categoryId") is truthy
HasCategoryRef(data) == Has(data, "categoryId") /\ data.categoryId # NoRef

\* select(Category).where(user_id == u, or_(id == cat_id if valid uuid, local_id == cat_id))
ResolveCategory(s, u, cat_id) ==
    {c \in s.D.cats : c.user_id = u
        /\ ((IsValidUuid(cat_id.sid) /\ c.id = cat_id.sid) \/ c.local_id = cat_id.lid)}

\* (mutant) every mapped field is written, a missing key as its default
SetItemFieldsAll(i, data) ==
    [i EXCEPT !.quantity = data.quantity]

\* the field_mapping loop: only the keys present are written
SetItemFields(i, data) ==
    IF Has(data, "quantity") THEN [i EXCEPT !.quantity = data.quantity] ELSE i

\* the body shared by CREATE on an existing item and UPDATE
UpdateExistingItem(s, u, opid, op, i) ==
    IF ~Truthy(op.data) THEN Succeed(s, opid, i.id)
    ELSE
        LET cats == IF HasCategoryRef(op.data)
                    THEN ResolveCategory(s, u, op.data.categoryId) ELSE {}
        IN IF Cardinality(cats) > 1 THEN Raise(s, opid)
           ELSE LET i1 == IF cats # {}
                          THEN [i EXCEPT !.category_id = (CHOOSE c \in cats : TRUE).id]
                          ELSE i
                IN Succeed([s EXCEPT !.M.items = Replace(@, i, SetItemFields(i1, op.data))],
                           opid, i.id)

SyncItemCreate(s, u, opid, op) ==
    LET found == ItemByLocal(s, u, op.local_id) IN
    IF Cardinality(found) > 1 THEN Raise(s, opid)
    ELSE IF found # {} THEN
        UpdateExistingItem(s, u, opid, op, Obj(s.M.items, (CHOOSE r \in found : TRUE).id))
    ELSE IF op.data.none THEN Raise(s, opid)                 \* None.get("categoryId")
    ELSE
        LET cats == IF HasCategoryRef(op.data)
                    THEN ResolveCategory(s, u, op.data.categoryId) ELSE {}
        IN IF Cardinality(cats) > 1 THEN Raise(s, opid)
           ELSE LET resolved_cat_id == IF cats # {} THEN (CHOOSE c \in cats : TRUE).id
                                       ELSE NoId
                    i == Item(s.nextId, u, resolved_cat_id, op.local_id,
                              IF Has(op.data, "quantity") THEN op.data.quantity ELSE 0)
                    f == Flush([s EXCEPT !.M.items = @ \cup {i}, !.nextId = @ + 1])
                IN IF f.ok THEN Succeed(f, opid, i.id) ELSE Raise(f, opid)

SyncItemUpdate(s, u, opid, op) ==
    LET found == ItemByIdOrLocal(s, u, op.entity_id, op.local_id) IN
    IF Cardinality(found) > 1 THEN Raise(s, opid)
    ELSE IF found = {} THEN SyncItemCreate(s, u, opid, op)
    ELSE UpdateExistingItem(s, u, opid, op, Obj(s.M.items, (CHOOSE r \in found : TRUE).id))

SyncItemDelete(s, u, opid, op) ==
    LET found == ItemByIdOrLocal(s, u, op.entity_id, op.local_id) IN
    IF Cardinality(found) > 1 THEN Raise(s, opid)
    ELSE IF found = {} THEN Succeed(s, opid, NoId)
    ELSE Succeed(DeleteItem(s, CHOOSE r \in found : TRUE), opid, NoId)

SyncItem(s, u, opid, op) ==
    CASE op.type = CREATE -> SyncItemCreate(s, u, opid, op)
      [] op.type = UPDATE -> SyncItemUpdate(s, u, opid, op)
      [] op.type = DELETE -> SyncItemDelete(s, u, opid, op)

-----------------------------------------------------------------------------
(* _sync_order *)

\* order_id_from_data = op.data.get("orderId") if op.data else None, when truthy
HasOrderCode(data) == Truthy(data) /\ Has(data, "orderId") /\ data.orderId # ""

\* select(Order).where(user_id == u, or_(local_id == local_id, order_id == orderId if given))
OrderByLocalOrCode(s, u, local_id, data) ==
    {o \in s.D.orders : o.user_id = u
        /\ (o.local_id = local_id
            \/ (HasOrderCode(data) /\ o.order_id = ClientCode(data.orderId)))}

OrderByIdOrLocal(s, u, entity_id, local_id) ==
    {o \in s.D.orders : o.user_id = u
        /\ ((IsValidUuid(entity_id) /\ o.id = entity_id) \/ o.local_id = local_id)}

\* select(Order) returns the orders `found`: Order.items is lazy="selectin", so the
\* collection of each is loaded from the order_items rows the database holds now,
\* unless the session's object already has it loaded (it is not loaded again)
LoadOrders(s, found) ==
    [s EXCEPT !.loaded = @ \cup {[id |-> r.id, lines |-> r.lines] :
                                   r \in {f \in found : f.id \notin {l.id : l \in s.loaded}}}]

\* `"items" in op.data and op.data["items"]`
HasLines(data) == Has(data, "items") /\ data.items # <<>>

\* the OrderItem objects added with db.add() and not yet inserted
PendingLines(s, o) ==
    LET flushed == IF \E r \in s.D.orders : r.id = o.id
                   THEN Len(Obj(s.D.orders, o.id).lines) ELSE 0
    IN SubSeq(o.lines, flushed + 1, Len(o.lines))

\* db.execute(delete(OrderItem).where(OrderItem.order_id == o.id)): runs at once,
\* on the rows the database holds; the lines still pending are not touched
DeleteOrderItems(s, o) ==
    LET d == Obj(s.D.orders, o.id) IN
    [s EXCEPT !.M.orders = Replace(@, o, [o EXCEPT !.lines = PendingLines(s, o)]),
              !.D.orders = Replace(@, d, [d EXCEPT !.lines = <<>>])]

\* db.add(order_item) for each line of the payload
AddOrderItems(s, oid, lines) ==
    LET o == Obj(s.M.orders, oid) IN
    [s EXCEPT !.M.orders = Replace(@, o, [o EXCEPT !.lines = @ \o lines])]

UpdateExistingOrder(s, u, opid, op, o) ==
    IF ~Truthy(op.data) THEN Succeed(s, opid, o.id)
    ELSE IF Has(op.data, "status") /\ op.data.status \notin OrderStatus
    THEN Raise(s, opid)                                        \* OrderStatus(...) ValueError
    ELSE
        LET o1 == IF Has(op.data, "status") THEN [o EXCEPT !.status = op.data.status] ELSE o
            s1 == [s EXCEPT !.M.orders = Replace(@, o, o1)]
            s2 == IF HasLines(op.data)
                  THEN AddOrderItems(DeleteOrderItems(s1, o1), o.id, op.data.items)
                  ELSE s1
        IN Succeed(s2, opid, o.id)

\* op.data.get("orderId", f"ORD-{op.local_id[:8]}")
ProposedOrderId(op) ==
    IF Has(op.data, "orderId") THEN ClientCode(op.data.orderId)
    ELSE ClientCode("ORD-" \o op.local_id)

SyncOrderCreate(s0, u, opid, op) ==
    LET found == OrderByLocalOrCode(s0, u, op.local_id, op.data)
        s == LoadOrders(s0, found)
    IN
    IF Cardinality(found) > 1 THEN Raise(s, opid)
    ELSE IF found # {} THEN
        UpdateExistingOrder(s, u, opid, op, Obj(s.M.orders, (CHOOSE r \in found : TRUE).id))
    ELSE IF op.data.none THEN Raise(s, opid)                 \* None.get("orderId", ...)
    ELSE
        LET proposed == ProposedOrderId(op)
            taken == \E o \in s.D.orders : o.order_id = proposed   \* any user
            code == IF taken THEN OrderCode(proposed.base, u, s.nextId) ELSE proposed
            status == IF Has(op.data, "status") THEN op.data.status ELSE "pending"
        IN IF status \notin OrderStatus THEN Raise(s, opid)
           ELSE LET o == Order(s.nextId, u, code, op.local_id, status, <<>>)
                    f == Flush([s EXCEPT !.M.orders = @ \cup {o}, !.nextId = @ + 1])
                IN IF ~f.ok THEN Raise(f, opid)
                   ELSE Succeed(IF HasLines(op.data)
                                THEN AddOrderItems(f, o.id, op.data.items) ELSE f,
                                opid, o.id)

\* UPDATE: "Same as CREATE with UPSERT"
SyncOrderUpdate(s, u, opid, op) == SyncOrderCreate(s, u, opid, op)

SyncOrderDelete(s0, u, opid, op) ==
    LET found == OrderByIdOrLocal(s0, u, op.entity_id, op.local_id)
        s == LoadOrders(s0, found)
    IN
    IF Cardinality(found) > 1 THEN Raise(s, opid)
    ELSE IF found = {} THEN Succeed(s, opid, NoId)
    ELSE LET o == Obj(s.M.orders, (CHOOSE r \in found : TRUE).id)
         IN Succeed(DeleteOrder(DeleteOrderItems(s, o), o), opid, NoId)

SyncOrder(s, u, opid, op) ==
    CASE op.type = CREATE -> SyncOrderCreate(s, u, opid, op)
      [] op.type = UPDATE -> SyncOrderUpdate(s, u, opid, op)
      [] op.type = DELETE -> SyncOrderDelete(s, u, opid, op)

\* _process_sync_operation
ProcessSyncOperation(s, u, opid, op) ==
    CASE op.entity = CATEGORY -> SyncCategory(s, u, opid, op)
      [] op.entity = ITEM -> SyncItem(s, u, opid, op)
      [] op.entity = ORDER -> SyncOrder(s, u, opid, op)

-----------------------------------------------------------------------------
(* sync_push *)

\* (mutant) no dependency order: every entity type has the same priority
GetOperationPriorityFlat(op) == 0

\* get_operation_priority
GetOperationPriority(op) ==
    CASE op.entity = CATEGORY -> 0
      [] op.entity = ITEM -> 1
      [] op.entity = ORDER -> 2
      [] OTHER -> 3

\* sorted(data.operations, key=get_operation_priority): Python's sort is stable.
\* The batch is kept as submitted; the result is the sequence of positions
\* (the operation ids) in the order they are processed.
\* (mutant) an unstable sort: a later operation is put before its equals
InsertSortedUnstable(batch, sorted, i) ==
    LET before == Cardinality({k \in 1..Len(sorted) :
                    GetOperationPriority(batch[sorted[k]]) < GetOperationPriority(batch[i])})
    IN SubSeq(sorted, 1, before) \o <<i>> \o SubSeq(sorted, before + 1, Len(sorted))

InsertSorted(batch, sorted, i) ==
    LET before == Cardinality({k \in 1..Len(sorted) :
                    GetOperationPriority(batch[sorted[k]]) <= GetOperationPriority(batch[i])})
    IN SubSeq(sorted, 1, before) \o <<i>> \o SubSeq(sorted, before + 1, Len(sorted))

RECURSIVE SortedUpTo(_, _)
SortedUpTo(batch, n) ==
    IF n = 0 THEN <<>> ELSE InsertSorted(batch, SortedUpTo(batch, n - 1), n)

SortedOperations(batch) == SortedUpTo(batch, Len(batch))

\* "Track pushed entities for orphan cleanup"
TrackPushed(s, op) ==
    IF op.type = DELETE THEN s
    ELSE CASE op.entity = CATEGORY -> [s EXCEPT !.pushed.cats = @ \cup {op.local_id}]
           [] op.entity = ITEM -> [s EXCEPT !.pushed.items = @ \cup {op.local_id}]
           [] op.entity = ORDER -> [s EXCEPT !.pushed.orders = @ \cup {op.local_id}]

\* one turn of `for op in sorted_operations`: try ... except Exception
ApplyOperation(s, u, opid, op) ==
    LET t == [TrackPushed(s, op) EXCEPT !.applied = Append(@, opid)] IN
    IF ~t.ok THEN Raise(t, opid)          \* the session raises on every call
    ELSE ProcessSyncOperation(t, u, opid, op)

RECURSIVE ApplyAll(_, _, _, _)
ApplyAll(s, u, batch, sorted) ==
    IF sorted = <<>> THEN s
    ELSE ApplyAll(ApplyOperation(s, u, Head(sorted), batch[Head(sorted)]),
                  u, batch, Tail(sorted))

\* Item.local_id.notin_(pushed): SQL NOT IN is never true of a NULL local_id
NotIn(local_id, pushed) == local_id # NoLocal /\ local_id \notin pushed

\* (mutant) the item cleanup selects with IN instead of NOT IN
OrphanItemsNamed(s, u) ==
    IF s.pushed.items = {} THEN {}
    ELSE {i \in s.D.items : i.user_id = u /\ i.local_id \in s.pushed.items}

OrphanItems(s, u) ==
    IF s.pushed.items = {} THEN {}
    ELSE {i \in s.D.items : i.user_id = u /\ NotIn(i.local_id, s.pushed.items)}

\* (mutant) the category cleanup is triggered by any pushed record
OrphanCategoriesAnyPushed(s, u) ==
    IF s.pushed.cats \cup s.pushed.items \cup s.pushed.orders = {} THEN {}
    ELSE {c \in s.D.cats : c.user_id = u /\ NotIn(c.local_id, s.pushed.cats)
                            /\ ~\E i \in s.D.items : i.category_id = c.id}

\* "Delete orphan categories (only if no items reference them)"
OrphanCategories(s, u) ==
    IF s.pushed.cats = {} THEN {}
    ELSE {c \in s.D.cats : c.user_id = u /\ NotIn(c.local_id, s.pushed.cats)
                            /\ ~\E i \in s.D.items : i.category_id = c.id}

OrphanOrders(s, u) ==
    IF s.pushed.orders = {} THEN {}
    ELSE {o \in s.D.orders : o.user_id = u /\ NotIn(o.local_id, s.pushed.orders)}

\* (mutant) the cleanup runs without its guards: not on the size of the batch,
\* not on the sets of pushed local ids
OrphanCleanupUnguarded(s, u, batch) ==
    LET its == {i \in s.D.items : i.user_id = u /\ NotIn(i.local_id, s.pushed.items)}
        cats == {c \in s.D.cats : c.user_id = u /\ NotIn(c.local_id, s.pushed.cats)
                                   /\ ~\E i \in s.D.items : i.category_id = c.id}
        ords == {o \in s.D.orders : o.user_id = u /\ NotIn(o.local_id, s.pushed.orders)}
    IN [s EXCEPT !.pend = [cats |-> @.cats \cup {c.id : c \in cats},
                           items |-> @.items \cup {i.id : i \in its},
                           orders |-> @.orders \cup {o.id : o \in ords}],
                 !.orphans = [cats |-> {c.id : c \in cats},
                              items |-> {i.id : i \in its},
                              orders |-> {o.id : o \in ords}]]

\* the ORPHAN CLEANUP block: db.delete() of every orphan, nothing flushed
OrphanCleanup(s, u, batch) ==
    IF ~(Len(batch) >= 1) THEN s
    ELSE LET its == OrphanItems(s, u)
             cats == OrphanCategories(s, u)
             ords == OrphanOrders(s, u)
         IN [s EXCEPT !.pend = [cats |-> @.cats \cup {c.id : c \in cats},
                                items |-> @.items \cup {i.id : i \in its},
                                orders |-> @.orders \cup {o.id : o \in ords}],
                      !.orphans = [cats |-> {c.id : c \in cats},
                                   items |-> {i.id : i \in its},
                                   orders |-> {o.id : o \in ords}],
                      \* the items the commit removes through the foreign key of an
                      \* orphan category (not marked for deletion themselves)
                      !.cascaded = {i.id : i \in {j \in s.M.items :
                                        /\ j.category_id \in {c.id : c \in cats}
                                        /\ j.id \notin s.pend.items
                                        /\ j.id \notin {k.id : k \in its}}}]

\* the whole of sync_push on a fresh session, up to and including db.commit()
SyncPushRun(cats, its, ords, nid, u, batch) ==
    LET s0 == Session(cats, its, ords, nid)
        s1 == ApplyAll(s0, u, batch, SortedOperations(batch))
    IN IF ~s1.ok THEN s1 ELSE Flush(OrphanCleanup(s1, u, batch))

-----------------------------------------------------------------------------
(* The requests of the model *)

NameData(name) == Payload(FALSE, {"name"}, name, NoRef, 0, "", "", <<>>)
CategoryRefData(lid) == Payload(FALSE, {"categoryId"}, "", Ref(NoId, lid), 0, "", "", <<>>)
OrderData(code) == Payload(FALSE, {"orderId"}, "", NoRef, 0, code, "", <<>>)
OrderLinesData(code, lines) ==
    Payload(FALSE, {"orderId", "items"}, "", NoRef, 0, code, "", lines)

RECURSIVE SeqsUpTo(_, _)
SeqsUpTo(S, n) ==
    IF n = 0 THEN {<<>>}
    ELSE LET shorter == SeqsUpTo(S, n - 1)
         IN shorter \cup {Append(q, x) : q \in {r \in shorter : Len(r) = n - 1}, x \in S}

\* The operations a client submits in this model
Operations ==
    {SyncOperation(CREATE, CATEGORY, NoId, l, NameData("n1")) : l \in LocalIds}
    \cup {SyncOperation(CREATE, CATEGORY, NoId, "a", NoneData),
          SyncOperation(UPDATE, CATEGORY, NoId, "a", NameData("n2")),
          SyncOperation(DELETE, CATEGORY, NoId, "a", NoneData)}
    \cup {SyncOperation(CREATE, ITEM, NoId, l, CategoryRefData(c)) : l \in LocalIds, c \in LocalIds}
    \cup {SyncOperation(CREATE, ITEM, NoId, "a", CategoryRefData("zz")),
          SyncOperation(UPDATE, ITEM, NoId, "a", CategoryRefData("b")),
          SyncOperation(DELETE, ITEM, NoId, "a", NoneData)}
    \cup {SyncOperation(CREATE, ORDER, NoId, l, OrderData("X")) : l \in LocalIds}
    \cup {SyncOperation(CREATE, ORDER, NoId, "a",
                        OrderLinesData("X", <<OrderItem(Ref(NoId, "a"), 1)>>)),
          SyncOperation(UPDATE, ORDER, NoId, "a", OrderData("X")),
          SyncOperation(DELETE, ORDER, NoId, "a", NoneData)}

Batches == SeqsUpTo(Operations, MaxOps)

NoFirst == [is |-> FALSE, results |-> <<>>, post |-> Tables({}, {}, {})]

Request(kind, u, batch, outcome, s, pre, first) ==
    [kind |-> kind, user |-> u, batch |-> batch, outcome |-> outcome,
     applied |-> s.applied, results |-> s.results,
     success_count |-> s.success_count, error_count |-> s.error_count,
     orphans |-> s.orphans, cascaded |-> s.cascaded, pre |-> pre, first |-> first,
     snapshot |-> s.snapshot, target |-> s.target]

NoRequest ==
    Request("none", "u1", <<>>, "ok", Session({}, {}, {}, 1), Tables({}, {}, {}), NoFirst)

Init ==
    /\ categories = {}
    /\ items = {}
    /\ orders = {}
    /\ nextId = 1
    /\ pushes = 0
    /\ last = NoRequest

\* full_sync after sync_push returned: select(Category), select(Item) and
\* select(Order) of the user, in the session of the push (expire_on_commit=False);
\* OrderResponse reads order.items, the collection the session's object holds
FullSnapshot(s, u) ==
    Tables({c \in s.D.cats : c.user_id = u},
           {i \in s.D.items : i.user_id = u},
           {IF \E l \in s.loaded : l.id = o.id
            THEN [o EXCEPT !.lines = (CHOOSE l \in s.loaded : l.id = o.id).lines]
            ELSE o : o \in {r \in s.D.orders : r.user_id = u}})

\* the answer of full_sync carries the snapshot, that of sync_push does not
WithSnapshot(kind, u, p) ==
    IF p.ok /\ kind = "full" THEN [p EXCEPT !.snapshot = FullSnapshot(p, u)] ELSE p

\* the request ends: the committed rows become the stored ones and the answer is
\* sent, or the exception leaves the handler and get_db rolls the session back
Conclude(kind, u, batch, first, pre, s) ==
    IF s.ok
    THEN /\ categories' = s.D.cats
         /\ items' = s.D.items
         /\ orders' = s.D.orders
         /\ nextId' = s.nextId
         /\ last' = Request(kind, u, batch, "ok", s, pre, first)
    ELSE /\ UNCHANGED <<categories, items, orders, nextId>>
         /\ last' = Request(kind, u, batch, "error", s, pre, first)

\* sync_push as the route handler runs it; `kind` names the route, `first` is
\* what the first submission of this batch answered when this one is a retry
Serve(kind, u, batch, first) ==
    /\ pushes < MaxPushes
    /\ Conclude(kind, u, batch, first, Tables(categories, items, orders),
                WithSnapshot(kind, u,
                             SyncPushRun(categories, items, orders, nextId, u, batch)))
    /\ pushes' = pushes + 1

\* POST /sync/push
SyncPush(u, batch) ==
    /\ last.kind = "none"
    /\ Serve("push", u, batch, NoFirst)

\* the client submits the batch it was just answered once more, unchanged
RetryPush ==
    /\ last.kind = "push"
    /\ last.outcome = "ok"
    /\ ~last.first.is
    /\ Serve("push", last.user, last.batch,
             [is |-> TRUE, results |-> last.results,
              post |-> Tables(categories, items, orders)])

\* POST /sync/full: sync_push, then the snapshot
FullSync(u, batch) ==
    /\ last.kind = "none"
    /\ Serve("full", u, batch, NoFirst)

\* the response has been sent and the request's session closed
Respond ==
    /\ last.kind # "none"
    /\ last' = NoRequest
    /\ UNCHANGED <<categories, items, orders, nextId, pushes>>

Next ==
    \/ \E u \in Users, batch \in Batches : SyncPush(u, batch)
    \/ RetryPush
    \/ \E u \in Users, batch \in SeqsUpTo(Operations, 1) : FullSync(u, batch)
    \/ Respond

Spec == Init /\ [][Next]_vars

-----------------------------------------------------------------------------
(* The REST routes that create records beside the sync routes: they store the *)
(* client's local_id as given (None, or one that is already in use).          *)

\* POST /categories (create_category)
CreateCategory(u, name, local_id) ==
    /\ last.kind = "none"
    /\ nextId <= MaxRestId
    /\ IF \E c \in categories : c.user_id = u /\ c.name = name
       THEN UNCHANGED <<categories, nextId>>       \* 400, or MultipleResultsFound
       ELSE /\ categories' = categories \cup {Category(nextId, u, local_id, name)}
            /\ nextId' = nextId + 1
    /\ UNCHANGED <<items, orders, pushes, last>>

\* POST /items (create_item)
CreateItem(u, category_id, local_id, quantity) ==
    /\ last.kind = "none"
    /\ nextId <= MaxRestId
    /\ IF ~\E c \in categories : c.id = category_id /\ c.user_id = u
       THEN UNCHANGED <<items, nextId>>            \* 400 "Category not found"
       ELSE /\ items' = items \cup {Item(nextId, u, category_id, local_id, quantity)}
            /\ nextId' = nextId + 1
    /\ UNCHANGED <<categories, orders, pushes, last>>

RestOperations ==
    {SyncOperation(CREATE, CATEGORY, NoId, "a", NameData("n1")),
     SyncOperation(CREATE, CATEGORY, NoId, "a", NoneData),
     SyncOperation(CREATE, ITEM, NoId, "a", CategoryRefData("a")),
     SyncOperation(CREATE, ITEM, NoId, "b", CategoryRefData("a")),
     SyncOperation(DELETE, ITEM, NoId, "a", NoneData)}

NextRest ==
    \/ \E u \in Users, batch \in SeqsUpTo(RestOperations, MaxOps) : SyncPush(u, batch)
    \/ \E u \in Users, l \in {NoLocal, "a"} : CreateCategory(u, "r1", l)
    \/ \E u \in Users, c \in 1..2, l \in {NoLocal, "a"} : CreateItem(u, c, l, 1)
    \/ Respond

SpecRest == Init /\ [][NextRest]_vars

-----------------------------------------------------------------------------
(* Longer batches over few operations, for the order of processing *)

MaxSeqOps == 4

SeqOperations ==
    {SyncOperation(CREATE, CATEGORY, NoId, "a", NameData("n1")),
     SyncOperation(CREATE, ITEM, NoId, "a", CategoryRefData("a")),
     SyncOperation(DELETE, ITEM, NoId, "a", NoneData),
     SyncOperation(CREATE, ORDER, NoId, "a", OrderData("X"))}

NextSeq ==
    \/ \E batch \in SeqsUpTo(SeqOperations, MaxSeqOps) : SyncPush("u1", batch)
    \/ Respond

SpecSeq == Init /\ [][NextSeq]_vars

-----------------------------------------------------------------------------
(* Two owners; operations that carry server ids, and payloads that carry an *)
(* owner                                                                     *)

Owners == {"u1", "u2"}

\* {"userId": u}
OwnerData(u) ==
    [none |-> FALSE, keys |-> {"userId"}, name |-> "", categoryId |-> NoRef,
     quantity |-> 0, orderId |-> "", status |-> "", items |-> <<>>, userId |-> u]

\* {"categoryId": "<uuid>"}
CategoryIdData(sid) == Payload(FALSE, {"categoryId"}, "", Ref(sid, "zz"), 0, "", "", <<>>)

OwnerOperations ==
    {SyncOperation(CREATE, CATEGORY, NoId, "a", NameData("n1")),
     SyncOperation(UPDATE, CATEGORY, NoId, "a", OwnerData("u2")),
     SyncOperation(DELETE, CATEGORY, 1, "zz", NoneData),
     SyncOperation(DELETE, CATEGORY, NoId, "a", NoneData),
     SyncOperation(CREATE, ITEM, NoId, "a", CategoryRefData("a")),
     SyncOperation(CREATE, ITEM, NoId, "a", CategoryIdData(1)),
     SyncOperation(DELETE, ITEM, 2, "zz", NoneData),
     SyncOperation(CREATE, ORDER, NoId, "a", OrderData("X")),
     SyncOperation(CREATE, ORDER, NoId, "a", OrderData("L")),
     SyncOperation(DELETE, ORDER, NoId, "a", NoneData)}

NextOwners ==
    \/ \E u \in Owners, batch \in SeqsUpTo(OwnerOperations, MaxOps) : SyncPush(u, batch)
    \/ RetryPush
    \/ Respond

SpecOwners == Init /\ [][NextOwners]_vars

-----------------------------------------------------------------------------
(* Operations that address a record by server id and by the local id of     *)
(* another record, and updates whose payloads carry some of the keys        *)

\* {"quantity": n}
QuantityData(n) == Payload(FALSE, {"quantity"}, "", NoRef, n, "", "", <<>>)

\* {"categoryId": "<local id>", "quantity": n}
ItemData(lid, n) == Payload(FALSE, {"categoryId", "quantity"}, "", Ref(NoId, lid), n, "", "", <<>>)

ResolveOperations ==
    {SyncOperation(CREATE, CATEGORY, NoId, l, NameData("n1")) : l \in LocalIds}
    \cup {SyncOperation(UPDATE, CATEGORY, 1, "b", NameData("n2")),
          SyncOperation(UPDATE, CATEGORY, 1, "zz", NameData("n2")),
          SyncOperation(DELETE, CATEGORY, 1, "b", NoneData),
          SyncOperation(CREATE, ITEM, NoId, "a", ItemData("a", 1)),
          SyncOperation(CREATE, ITEM, NoId, "a", QuantityData(2)),
          SyncOperation(UPDATE, ITEM, NoId, "a", CategoryRefData("b")),
          SyncOperation(UPDATE, ITEM, NoId, "b", ItemData("a", 1)),
          SyncOperation(UPDATE, ITEM, NoId, "b", QuantityData(2)),
          SyncOperation(UPDATE, ITEM, 3, "b", QuantityData(2)),
          SyncOperation(DELETE, ITEM, 3, "b", NoneData)}

NextResolve ==
    \/ \E batch \in SeqsUpTo(ResolveOperations, MaxOps) : SyncPush("u1", batch)
    \/ Respond

SpecResolve == Init /\ [][NextResolve]_vars

-----------------------------------------------------------------------------
(* Orders whose payloads carry line-item lists, the empty one included, and *)
(* a second local id under the code of a stored order                       *)

LineOperations ==
    {SyncOperation(CREATE, ORDER, NoId, "a",
                   OrderLinesData("X", <<OrderItem(Ref(NoId, "a"), 1)>>)),
     SyncOperation(UPDATE, ORDER, NoId, "a",
                   OrderLinesData("X", <<OrderItem(Ref(NoId, "b"), 2),
                                         OrderItem(Ref(NoId, "a"), 1)>>)),
     SyncOperation(UPDATE, ORDER, NoId, "a", OrderLinesData("X", <<>>)),
     SyncOperation(CREATE, ORDER, NoId, "b", OrderData("X")),
     SyncOperation(CREATE, ORDER, NoId, "b",
                   OrderLinesData("X", <<OrderItem(Ref(NoId, "b"), 2)>>)),
     SyncOperation(CREATE, ORDER, NoId, "b", OrderData("Y")),
     SyncOperation(DELETE, ORDER, NoId, "a", NoneData)}

NextLines ==
    \/ \E batch \in SeqsUpTo(LineOperations, MaxOps) : SyncPush("u1", batch)
    \/ Respond

SpecLines == Init /\ [][NextLines]_vars

-----------------------------------------------------------------------------
(* Item payloads whose quantity is any integer: SyncOperation.data is a     *)
(* dict that no schema validates                                             *)

StockOperations ==
    {SyncOperation(CREATE, CATEGORY, NoId, "a", NameData("n1")),
     SyncOperation(CREATE, ITEM, NoId, "a", ItemData("a", 1)),
     SyncOperation(CREATE, ITEM, NoId, "b", ItemData("a", -1)),
     SyncOperation(UPDATE, ITEM, NoId, "a", QuantityData(-1)),
     SyncOperation(UPDATE, ITEM, NoId, "a", QuantityData(2)),
     SyncOperation(DELETE, ITEM, NoId, "a", NoneData)}

NextStock ==
    \/ \E batch \in SeqsUpTo(StockOperations, MaxOps) : SyncPush("u1", batch)
    \/ Respond

SpecStock == Init /\ [][NextStock]_vars

-----------------------------------------------------------------------------
(* A push whose final db.commit() fails (the connection is lost, the server *)
(* aborts the transaction): the exception leaves sync_push and get_db rolls *)
(* the session back.                                                         *)

\* (mutant) the rows already flushed stay, as if every flush were committed
RollbackKeepsFlushed(pre, s) == s.D

\* session.rollback(): the transaction began with the request, so the rows are
\* those stored before it
Rollback(pre, s) == pre

SyncPushCommitFails(u, batch) ==
    /\ last.kind = "none"
    /\ pushes < MaxPushes
    /\ LET pre == Tables(categories, items, orders)
           s == SyncPushRun(categories, items, orders, nextId, u, batch)
           t == Rollback(pre, s)
       IN /\ s.ok
          /\ categories' = t.cats
          /\ items' = t.items
          /\ orders' = t.orders
          /\ last' = Request("push", u, batch, "commit failed", s, pre, NoFirst)
    /\ pushes' = pushes + 1
    /\ UNCHANGED nextId

NextCommit ==
    \/ \E u \in Users, batch \in SeqsUpTo(RestOperations, MaxOps) : SyncPush(u, batch)
    \/ \E u \in Users, batch \in SeqsUpTo(RestOperations, MaxOps) : SyncPushCommitFails(u, batch)
    \/ Respond

SpecCommit == Init /\ [][NextCommit]_vars

-----------------------------------------------------------------------------
(* POST /orders/{order_id}/apply: the stock of a received order is added to *)
(* the items its lines name                                                  *)

\* the path parameter: an order's id, or an order's code
OrderKey(sid, code) == [sid |-> sid, code |-> code]
NoCode == ClientCode("")

\* select(Order).where(user_id == u, (Order.id == order_id) | (Order.order_id == order_id))
OrderByIdOrCode(ords, u, key) ==
    {o \in ords : o.user_id = u /\ (o.id = key.sid \/ o.order_id = key.code)}

\* (mutant) every order that has arrived, wholly or partly, may be applied
MayApplyPartial(o) == o.status \in {"received", "partially_received"}

\* `if order.status != OrderStatus.RECEIVED: raise HTTPException(400)`, negated
MayApply(o) == o.status = "received"

\* (mutant) the quantity of the line replaces the quantity of the item
SetStock(its, u, line) ==
    {IF i.id = line.item_id.sid /\ i.user_id = u
     THEN [i EXCEPT !.quantity = line.quantity] ELSE i : i \in its}

\* select(Item).where(Item.id == order_item.item_id, Item.user_id == u);
\* `if item: item.quantity += order_item.quantity`
AddStock(its, u, line) ==
    {IF i.id = line.item_id.sid /\ i.user_id = u
     THEN [i EXCEPT !.quantity = @ + line.quantity] ELSE i : i \in its}

\* `for order_item in order.items:` over the first n lines
RECURSIVE ApplyLines(_, _, _, _)
ApplyLines(its, u, lines, n) ==
    IF n = 0 THEN its ELSE AddStock(ApplyLines(its, u, lines, n - 1), u, lines[n])

ApplyOrderToStock(u, key) ==
    /\ last.kind = "none"
    /\ LET pre == Tables(categories, items, orders)
           found == OrderByIdOrCode(orders, u, key)
           s == [Session(categories, items, orders, nextId) EXCEPT !.target = key]
           answer(outcome) == Request("apply", u, <<>>, outcome, s, pre, NoFirst)
       IN IF Cardinality(found) # 1 \/ ~MayApply(CHOOSE o \in found : TRUE)
          THEN /\ last' = answer(IF Cardinality(found) > 1 THEN "error"  \* MultipleResultsFound
                                 ELSE IF found = {} THEN "404" ELSE "400")
               /\ UNCHANGED <<items, orders>>
          ELSE LET o == CHOOSE r \in found : TRUE IN
               /\ items' = ApplyLines(items, u, o.lines, Len(o.lines))
               /\ orders' = Replace(orders, o, [o EXCEPT !.status = "stock_updated"])
               /\ last' = answer("ok")
    /\ UNCHANGED <<categories, nextId, pushes>>

StatusLinesData(code, status, lines) ==
    Payload(FALSE, {"orderId", "status", "items"}, "", NoRef, 0, code, status, lines)
StatusData(status) == Payload(FALSE, {"status"}, "", NoRef, 0, "", status, <<>>)

\* the orders the clients of this part submit: their lines name items by server
\* id (2, 3: ids that items get here) or by a local id
ApplyOperations ==
    {SyncOperation(CREATE, ORDER, NoId, "a",
                   StatusLinesData("X", "received",
                                   <<OrderItem(Ref(2, "zz"), 1), OrderItem(Ref(3, "zz"), 2),
                                     OrderItem(Ref(2, "zz"), 2)>>)),
     SyncOperation(CREATE, ORDER, NoId, "b",
                   StatusLinesData("Y", "received",
                                   <<OrderItem(Ref(NoId, "a"), 1), OrderItem(Ref(3, "zz"), 1)>>)),
     SyncOperation(UPDATE, ORDER, NoId, "a", StatusData("partially_received")),
     SyncOperation(UPDATE, ORDER, NoId, "b", StatusData("pending"))}

ApplyKeys ==
    {OrderKey(n, NoCode) : n \in 1..(MaxRestId + 2)} \cup {OrderKey(NoId, ClientCode("X"))}

NextApply ==
    \/ \E u \in Owners : CreateCategory(u, "r1", NoLocal)
    \/ \E u \in Owners, c \in 1..2 : CreateItem(u, c, "a", 1)
    \/ \E u \in Owners, batch \in SeqsUpTo(ApplyOperations, 1) : SyncPush(u, batch)
    \/ \E u \in Owners, key \in ApplyKeys : ApplyOrderToStock(u, key)
    \/ Respond

SpecApply == Init /\ [][NextApply]_vars

-----------------------------------------------------------------------------
(* POST /sync/pull, beside the pushes of two owners                         *)

\* (mutant) the three selects without their filter on the user
PullSnapshotAll(cats, its, ords, u) == Tables(cats, its, ords)

\* select(Category), select(Item) and select(Order).options(selectinload(Order.items)),
\* each where user_id == current_user.id, in the fresh session of the request
PullSnapshot(cats, its, ords, u) ==
    Tables({c \in cats : c.user_id = u},
           {i \in its : i.user_id = u},
           {o \in ords : o.user_id = u})

\* SyncPullResponse(categories, items, orders, deleted_ids=[], has_more=False)
SyncPullResponse(u, last_sync_at, include_deleted, snapshot, pre) ==
    [kind |-> "pull", user |-> u, outcome |-> "ok",
     last_sync_at |-> last_sync_at, include_deleted |-> include_deleted,
     snapshot |-> snapshot, deleted_ids |-> <<>>, has_more |-> FALSE, pre |-> pre]

\* sync_pull: `data` is not read; the commit stores the activity log only
SyncPull(u, last_sync_at, include_deleted) ==
    /\ last.kind = "none"
    /\ last' = SyncPullResponse(u, last_sync_at, include_deleted,
                                PullSnapshot(categories, items, orders, u),
                                Tables(categories, items, orders))
    /\ UNCHANGED <<categories, items, orders, nextId, pushes>>

\* lastSyncAt: None, or a time before or after the last change
SyncTimes == {"None", "earlier", "later"}

PullOperations ==
    {SyncOperation(CREATE, CATEGORY, NoId, "a", NameData("n1")),
     SyncOperation(CREATE, ITEM, NoId, "a", CategoryRefData("a")),
     SyncOperation(DELETE, ITEM, NoId, "a", NoneData),
     SyncOperation(CREATE, ORDER, NoId, "a",
                   OrderLinesData("X", <<OrderItem(Ref(NoId, "a"), 1)>>)),
     SyncOperation(DELETE, ORDER, NoId, "a", NoneData)}

NextPull ==
    \/ \E u \in Owners, batch \in SeqsUpTo(PullOperations, MaxOps) : SyncPush(u, batch)
    \/ \E u \in Owners, t \in SyncTimes, d \in BOOLEAN : SyncPull(u, t, d)
    \/ Respond

SpecPull == Init /\ [][NextPull]_vars

-----------------------------------------------------------------------------
(* The derived stock status of an item (models/item.py) and the query of    *)
(* GET /items/needs-attention                                                *)

MaxStock == 5

StockLevels == (0 - MaxStock)..MaxStock

\* Item.is_out_of_stock
IsOutOfStock(i) == i.quantity <= 0

\* (mutant) the comparison with the minimum alone
IsLowStockUnguarded(i) == i.quantity < i.minimum_stock

\* Item.is_low_stock
IsLowStock(i) ==
    IF i.quantity <= 0 THEN FALSE ELSE i.quantity < i.minimum_stock

\* Item.needs_attention
NeedsAttention(i) == IsOutOfStock(i) \/ IsLowStock(i)

\* get_items_needing_attention: where(is_active == True,
\* or_(quantity <= 0, quantity < minimum_stock))
NeedingAttention(its) ==
    {i \in its : i.is_active /\ (i.quantity <= 0 \/ i.quantity < i.minimum_stock)}

StockItem(quantity, minimum_stock, is_active) ==
    [quantity |-> quantity, minimum_stock |-> minimum_stock, is_active |-> is_active]

NotEvaluated ==
    [is_out_of_stock |-> FALSE, is_low_stock |-> FALSE, needs_attention |-> FALSE,
     listed |-> FALSE]

InitAttention ==
    /\ categories = {}
    /\ items = {}
    /\ orders = {}
    /\ nextId = 1
    /\ pushes = 0
    /\ \E q \in StockLevels, m \in StockLevels, a \in BOOLEAN :
           last = [kind |-> "item", item |-> StockItem(q, m, a), status |-> NotEvaluated]

\* the three properties are read and the item is looked for in the listing
ReadStatus ==
    /\ last.kind = "item"
    /\ last' = [kind |-> "status", item |-> last.item,
                status |-> [is_out_of_stock |-> IsOutOfStock(last.item),
                            is_low_stock |-> IsLowStock(last.item),
                            needs_attention |-> NeedsAttention(last.item),
                            listed |-> last.item \in NeedingAttention({last.item})]]
    /\ UNCHANGED <<categories, items, orders, nextId, pushes>>

NextAttention == ReadStatus

SpecAttention == InitAttention /\ [][NextAttention]_vars

-----------------------------------------------------------------------------
(* One received order, applied and then pushed or patched again             *)

\* PATCH /orders/{order_id}/status (update_order_status): the order is looked up
\* and its status assigned; then `if data.notes:` reads an attribute OrderUpdate
\* does not have, the AttributeError leaves the handler and get_db rolls back
UpdateOrderStatus(u, key, status) ==
    /\ last.kind = "none"
    /\ LET pre == Tables(categories, items, orders)
           found == OrderByIdOrCode(orders, u, key)
           s == [Session(categories, items, orders, nextId) EXCEPT !.target = key]
       IN last' = Request("status", u, <<>>, IF found = {} THEN "404" ELSE "error",
                          s, pre, NoFirst)
    /\ UNCHANGED <<categories, items, orders, nextId, pushes>>

OnceLines == <<OrderItem(Ref(2, "zz"), 1)>>
OnceCategories == {Category(1, "u1", "a", "n1")}
OnceItems == {Item(2, "u1", 1, "a", 1)}
OnceOrders == {Order(3, "u1", ClientCode("X"), "a", "received", OnceLines)}

\* the store after the user's first pushes: a category, an item in it, and a
\* received order with one line on that item
InitOnce ==
    /\ categories = OnceCategories
    /\ items = OnceItems
    /\ orders = OnceOrders
    /\ nextId = 4
    /\ pushes = 0
    /\ last = NoRequest

OnceOperations ==
    {SyncOperation(UPDATE, ORDER, 3, "a", StatusData("received")),
     SyncOperation(UPDATE, ORDER, 3, "a", StatusData("pending")),
     SyncOperation(CREATE, ORDER, NoId, "a", StatusLinesData("X", "received", OnceLines))}

OnceKeys == {OrderKey(3, NoCode), OrderKey(NoId, ClientCode("X")), OrderKey(4, NoCode)}

NextOnce ==
    \/ \E batch \in SeqsUpTo(OnceOperations, 1) : SyncPush("u1", batch)
    \/ \E key \in OnceKeys : ApplyOrderToStock("u1", key)
    \/ \E key \in OnceKeys, status \in {"received", "pending"} :
           UpdateOrderStatus("u1", key, status)
    \/ Respond

SpecOnce == InitOnce /\ [][NextOnce]_vars

-----------------------------------------------------------------------------
(* Two pushes in flight at once.  Each request has its own session and its   *)
(* own transaction (get_db); no isolation level is set, so PostgreSQL runs   *)
(* them READ COMMITTED: every statement sees the rows committed before it    *)
(* starts and the rows its own transaction wrote.  A push takes four steps:  *)
(* the loop over the operations, the orphan cleanup, db.commit(), and the    *)
(* answer.  `last` holds the two transactions.                               *)

Devices == {"A", "B"}

Ids(tbl) == {r.id : r \in tbl}

\* a request that has not arrived
Idle ==
    [phase |-> "idle", user |-> "u1", batch |-> <<>>, seen |-> Tables({}, {}, {}),
     s |-> Session({}, {}, {}, 1), blocked |-> {}, concurrent |-> {}, outcome |-> ""]

InFlight(t) == t.phase \in {"applied", "cleaned"}

\* the rows a transaction has written and not committed
Uncommitted(t) ==
    IF InFlight(t)
    THEN Tables(t.s.D.cats \ t.seen.cats, t.s.D.items \ t.seen.items,
                t.s.D.orders \ t.seen.orders)
    ELSE Tables({}, {}, {})

\* (mutant) a statement also sees what the transactions in flight have written
ReadUncommitted ==
    Tables(categories \cup UNION {Uncommitted(last.tx[e]).cats : e \in Devices},
           items \cup UNION {Uncommitted(last.tx[e]).items : e \in Devices},
           orders \cup UNION {Uncommitted(last.tx[e]).orders : e \in Devices})

\* what a statement sees of the other transactions: the committed rows
ReadCommitted == Tables(categories, items, orders)

\* the rows of one table as the next statement of the transaction finds them:
\* its own versions, and for the rows it has not written those of `cur`,
\* where `old` is what it saw before
Reread(mine, old, cur) ==
    LET own == mine \ old
        gone == Ids(old) \ Ids(mine)
    IN own \cup {r \in cur : r.id \notin Ids(own) \cup gone}

Refresh(s, seen, now) ==
    [s EXCEPT !.D = Tables(Reread(s.D.cats, seen.cats, now.cats),
                           Reread(s.D.items, seen.items, now.items),
                           Reread(s.D.orders, seen.orders, now.orders)),
              !.M = Tables(Reread(s.M.cats, seen.cats, now.cats),
                           Reread(s.M.items, seen.items, now.items),
                           Reread(s.M.orders, seen.orders, now.orders))]

\* orders.order_id is UNIQUE: the INSERT of a code that another transaction has
\* inserted and not committed waits for that transaction to end
WaitsFor(d, s) ==
    {e \in Devices \ {d} :
        \E o \in s.D.orders \ orders, r \in Uncommitted(last.tx[e]).orders :
            o.order_id = r.order_id}

\* ... and fails if the code has been committed meanwhile
UniqueViolation(t) ==
    \E o \in orders \ t.seen.orders, m \in t.s.D.orders \ t.seen.orders :
        o.id # m.id /\ o.order_id = m.order_id

\* sync_push up to the end of `for op in sorted_operations`
PushBegin(d, u, batch) ==
    /\ last.tx[d].phase = "idle"
    /\ LET now == ReadCommitted
           s == ApplyAll(Session(now.cats, now.items, now.orders, nextId), u, batch,
                         SortedOperations(batch))
       IN /\ last' = [last EXCEPT !.tx[d] =
                         [phase |-> "applied", user |-> u, batch |-> batch, seen |-> now,
                          s |-> s, blocked |-> WaitsFor(d, s),
                          concurrent |-> {e \in Devices \ {d} : InFlight(last.tx[e])},
                          outcome |-> ""]]
          /\ nextId' = s.nextId
    /\ UNCHANGED <<categories, items, orders, pushes>>

\* the exception leaves sync_push; get_db rolls the session back; HTTP 500
Fail(t) == [t EXCEPT !.phase = "done", !.outcome = "error"]

\* the ORPHAN CLEANUP block of sync_push
PushCleanup(d) ==
    LET t == last.tx[d] IN
    /\ t.phase = "applied"
    /\ \A e \in t.blocked : ~InFlight(last.tx[e])
    /\ IF ~t.s.ok \/ UniqueViolation(t)
       THEN last' = [last EXCEPT !.tx[d] = Fail(t)]
       ELSE LET now == ReadCommitted
                r == Refresh(t.s, t.seen, now)
            IN last' = [last EXCEPT !.tx[d] =
                          [t EXCEPT !.phase = "cleaned", !.seen = now,
                                    !.s = OrphanCleanup(r, t.user, t.batch)]]
    /\ UNCHANGED <<categories, items, orders, nextId, pushes>>

\* db.commit() of sync_push
PushCommit(d) ==
    LET t == last.tx[d]
        f == Flush(Refresh(t.s, t.seen, Tables(categories, items, orders)))
    IN
    /\ t.phase = "cleaned"
    /\ IF ~f.ok
       THEN /\ last' = [last EXCEPT !.tx[d] = Fail(t)]
            /\ UNCHANGED <<categories, items, orders>>
       ELSE /\ categories' = f.D.cats
            /\ items' = f.D.items
            /\ orders' = f.D.orders
            /\ last' = [last EXCEPT !.tx[d] =
                          [t EXCEPT !.phase = "committed", !.s = f, !.outcome = "ok"]]
    /\ UNCHANGED <<nextId, pushes>>

\* `return SyncPushResponse(...)`: the answer leaves the server
PushRespond(d) ==
    /\ last.tx[d].phase = "committed"
    /\ last' = [last EXCEPT !.tx[d].phase = "done"]
    /\ UNCHANGED <<categories, items, orders, nextId, pushes>>

RaceOperations ==
    {SyncOperation(CREATE, ITEM, NoId, "a", CategoryRefData("a")),
     SyncOperation(CREATE, ITEM, NoId, "b", CategoryRefData("a")),
     SyncOperation(CREATE, ORDER, NoId, "a", OrderData("X")),
     SyncOperation(CREATE, ORDER, NoId, "a", OrderData("Y"))}

\* each owner has stored one category (local id "a") by an earlier push
RaceCategories == {Category(1, "u1", "a", "n1"), Category(2, "u2", "a", "n1")}

InitRace ==
    /\ categories = RaceCategories
    /\ items = {}
    /\ orders = {}
    /\ nextId = 3
    /\ pushes = 0
    /\ last = [kind |-> "race", tx |-> [d \in Devices |-> Idle]]

NextRace ==
    \/ \E d \in Devices, u \in Owners, batch \in SeqsUpTo(RaceOperations, MaxOps) :
           PushBegin(d, u, batch)
    \/ \E d \in Devices : PushCleanup(d)
    \/ \E d \in Devices : PushCommit(d)
    \/ \E d \in Devices : PushRespond(d)

SpecRace == InitRace /\ [][NextRace]_vars

-----------------------------------------------------------------------------
(* The order operations of sync_push over the rows of the tables orders and *)
(* order_items: an order line is a row of its own that names its order      *)

OrderRow(id, user_id, local_id, order_id) ==
    [id |-> id, user_id |-> user_id, local_id |-> local_id, order_id |-> order_id]
OrderItemRow(id, order_id) == [id |-> id, order_id |-> order_id]

\* the session of one push: the rows the transaction sees, the OrderItem objects
\* added and not yet inserted, the orders marked by db.delete(), and the
\* Order.items collections the session has loaded
RowSession(ords, rows, nid) ==
    [orders |-> ords, order_items |-> rows, added |-> {}, deleted |-> {},
     collections |-> {}, pushed |-> {}, nextId |-> nid]

\* select(Order): Order.items (lazy="selectin") of each order found is loaded
\* from the rows the database holds, once
SelectOrders(s, found) ==
    [s EXCEPT !.collections = @ \cup
        {[id |-> o.id, rows |-> {r \in s.order_items : r.order_id = o.id}] :
            o \in {f \in found : f.id \notin {c.id : c \in s.collections}}}]

\* (mutant) order_items.order_id without ON DELETE CASCADE
KeepOrderItems(rows, gone) == rows

\* ForeignKey("orders.id", ondelete="CASCADE"): the DELETE of an order removes
\* the order_items rows that name it
CascadeOrderItems(rows, gone) == {r \in rows : r.order_id \notin gone}

\* db.flush() / db.commit(): the added OrderItems are inserted, then the lines of
\* the loaded collections of the marked orders are deleted (relationship cascade
\* "all, delete-orphan"), then the marked orders
FlushRows(s) ==
    LET inserted == s.order_items \cup s.added
        members == UNION {c.rows : c \in {k \in s.collections : k.id \in s.deleted}}
    IN [s EXCEPT !.order_items = CascadeOrderItems(inserted \ members, s.deleted),
                 !.orders = {o \in @ : o.id \notin s.deleted},
                 !.added = {}, !.deleted = {}]

\* db.execute(delete(OrderItem).where(OrderItem.order_id == oid))
DeleteOrderItemRows(s, oid) ==
    [s EXCEPT !.order_items = {r \in @ : r.order_id # oid}]

\* db.add(OrderItem(order_id=oid, ...)) for each line of the payload
AddOrderItemRows(s, oid, n) ==
    [s EXCEPT !.added = @ \cup {OrderItemRow(s.nextId + k - 1, oid) : k \in 1..n},
              !.nextId = @ + n]

\* _sync_order, CREATE (and UPDATE, which is "same as CREATE with UPSERT")
CreateOrderRows(s0, u, op) ==
    LET found == {o \in s0.orders : o.user_id = u
                     /\ (o.local_id = op.local_id
                         \/ (HasOrderCode(op.data) /\ o.order_id = op.data.orderId))}
        s == SelectOrders(s0, found)
    IN
    IF Cardinality(found) > 1 THEN s                           \* MultipleResultsFound
    ELSE IF found # {} THEN
        IF Truthy(op.data) /\ HasLines(op.data)
        THEN LET o == CHOOSE r \in found : TRUE
             IN AddOrderItemRows(DeleteOrderItemRows(s, o.id), o.id, Len(op.data.items))
        ELSE s
    ELSE IF op.data.none THEN s                                \* None.get(...)
    ELSE
        LET o == OrderRow(s.nextId, u, op.local_id,
                          IF Has(op.data, "orderId") THEN op.data.orderId
                          ELSE "ORD-" \o op.local_id)
            f == FlushRows([s EXCEPT !.orders = @ \cup {o}, !.nextId = @ + 1])
        IN IF HasLines(op.data) THEN AddOrderItemRows(f, o.id, Len(op.data.items)) ELSE f

\* _sync_order, DELETE: the lines by a DELETE statement, the order by db.delete()
DeleteOrderRows(s0, u, op) ==
    LET found == {o \in s0.orders : o.user_id = u
                     /\ ((IsValidUuid(op.entity_id) /\ o.id = op.entity_id)
                         \/ o.local_id = op.local_id)}
        s == SelectOrders(s0, found)
    IN
    IF Cardinality(found) # 1 THEN s
    ELSE LET o == CHOOSE r \in found : TRUE
         IN [DeleteOrderItemRows(s, o.id) EXCEPT !.deleted = @ \cup {o.id}]

\* one turn of the loop of sync_push for an order operation
ApplyOrderRows(s, u, op) ==
    LET t == IF op.type = DELETE THEN s ELSE [s EXCEPT !.pushed = @ \cup {op.local_id}]
    IN IF op.type = DELETE THEN DeleteOrderRows(t, u, op) ELSE CreateOrderRows(t, u, op)

RECURSIVE ApplyAllOrderRows(_, _, _)
ApplyAllOrderRows(s, u, batch) ==
    IF batch = <<>> THEN s
    ELSE ApplyAllOrderRows(ApplyOrderRows(s, u, Head(batch)), u, Tail(batch))

\* "Delete orphan orders": db.delete() of every order of the user whose local id
\* was not pushed
OrphanOrderRows(s, u, batch) ==
    IF ~(Len(batch) >= 1) \/ s.pushed = {} THEN s
    ELSE LET orphans == {o \in s.orders : o.user_id = u /\ NotIn(o.local_id, s.pushed)}
         IN [SelectOrders(s, orphans) EXCEPT !.deleted = @ \cup {o.id : o \in orphans}]

\* sync_push for a batch of order operations, db.commit() included
PushOrderRows(ords, rows, nid, u, batch) ==
    FlushRows(OrphanOrderRows(ApplyAllOrderRows(RowSession(ords, rows, nid), u, batch),
                              u, batch))

RowsOf(kind, u, batch, before, s) ==
    [kind |-> kind, user |-> u, batch |-> batch, before |-> before,
     orders |-> s.orders, order_items |-> s.order_items]

\* POST /sync/push with a batch of order operations
SyncPushOrders(u, batch) ==
    /\ pushes < MaxPushes
    /\ LET s == PushOrderRows(last.orders, last.order_items, nextId, u, batch)
       IN /\ last' = RowsOf("rows", u, batch,
                            [orders |-> last.orders, order_items |-> last.order_items], s)
          /\ nextId' = s.nextId
    /\ pushes' = pushes + 1
    /\ UNCHANGED <<categories, items, orders>>

InitRows ==
    /\ categories = {}
    /\ items = {}
    /\ orders = {}
    /\ nextId = 1
    /\ pushes = 0
    /\ last = RowsOf("rows", "u1", <<>>, [orders |-> {}, order_items |-> {}],
                     RowSession({}, {}, 1))

NextRows == \E batch \in SeqsUpTo(LineOperations, MaxOps) : SyncPushOrders("u1", batch)

SpecRows == InitRows /\ [][NextRows]_vars

-----------------------------------------------------------------------------
(* Sessions (api/v1/auth.py): login, refresh with rotation, logout, and the *)
(* password reset.  Refresh tokens are named by their jti, reset tokens by  *)
(* a number of the same supply.  A refresh request reads in its own         *)
(* transaction and commits later, so two of them may be in flight.          *)

MaxTokens == 4

\* a row of refresh_tokens; `resets` notes how many password resets of the user
\* had completed when the token was created
RefreshToken(jti, user_id, is_revoked, resets) ==
    [jti |-> jti, user_id |-> user_id, is_revoked |-> is_revoked, resets |-> resets]

\* the columns of users that the reset reads and writes, and the count of resets
User(password_reset_token, resets) ==
    [password_reset_token |-> password_reset_token, resets |-> resets]

NoRefresh == [phase |-> "idle", jti |-> NoId, new |-> RefreshToken(NoId, "u1", FALSE, 0)]

AuthResponse(request, token, outcome) ==
    [request |-> request, token |-> token, outcome |-> outcome]

Auth(tokens, users, tx, exchanged, answer) ==
    [kind |-> "auth", tokens |-> tokens, users |-> users, tx |-> tx,
     exchanged |-> exchanged, answer |-> answer]

InitAuth ==
    /\ categories = {}
    /\ items = {}
    /\ orders = {}
    /\ nextId = 1
    /\ pushes = 0
    /\ last = Auth({}, [u \in Users |-> User(NoId, 0)], [d \in Devices |-> NoRefresh], {},
                   AuthResponse("none", NoId, "ok"))

AuthUnchanged == UNCHANGED <<categories, items, orders, pushes>>

\* POST /auth/login with the right password: a token pair under a new jti
Login(u) ==
    /\ nextId <= MaxTokens
    /\ last' = [last EXCEPT
                  !.tokens = @ \cup {RefreshToken(nextId, u, FALSE, last.users[u].resets)},
                  !.answer = AuthResponse("login", nextId, "ok")]
    /\ nextId' = nextId + 1
    /\ AuthUnchanged

\* the token row refresh_token selects, in a committed state, is there and is
\* not revoked
Accepted(tokens, jti) == \E t \in tokens : t.jti = jti /\ ~t.is_revoked

\* refresh_token up to db.commit(): the token and the user are read, the old
\* token is marked in the session and the new pair created under a new jti
RefreshBegin(d, jti) ==
    /\ last.tx[d].phase = "idle"
    /\ IF Accepted(last.tokens, jti)
       THEN /\ nextId <= MaxTokens
            /\ LET t == CHOOSE r \in last.tokens : r.jti = jti
               IN last' = [last EXCEPT
                             !.tx[d] = [phase |-> "read", jti |-> jti,
                                        new |-> RefreshToken(nextId, t.user_id, FALSE,
                                                             last.users[t.user_id].resets)]]
            /\ nextId' = nextId + 1
       ELSE /\ last' = [last EXCEPT !.answer = AuthResponse("refresh", jti, "401")]
            /\ UNCHANGED nextId
    /\ AuthUnchanged

\* db.commit() of refresh_token: UPDATE of the old row (is_revoked = True, whatever
\* it holds by now), INSERT of the new one, and the answer with the new pair
RefreshCommit(d) ==
    /\ last.tx[d].phase = "read"
    /\ LET tx == last.tx[d] IN
       last' = [last EXCEPT
                  !.tokens = {IF t.jti = tx.jti THEN [t EXCEPT !.is_revoked = TRUE] ELSE t
                              : t \in @} \cup {tx.new},
                  !.exchanged = @ \cup {[jti |-> tx.jti, new |-> tx.new.jti]},
                  !.tx[d] = NoRefresh,
                  !.answer = AuthResponse("refresh", tx.jti, "ok")]
    /\ UNCHANGED nextId
    /\ AuthUnchanged

\* POST /auth/logout: the presented token, if stored, is revoked
Logout(jti) ==
    /\ last' = [last EXCEPT
                  !.tokens = {IF t.jti = jti THEN [t EXCEPT !.is_revoked = TRUE] ELSE t
                              : t \in @},
                  !.answer = AuthResponse("logout", jti, "ok")]
    /\ UNCHANGED nextId
    /\ AuthUnchanged

\* forgot_password for the email of an active user: a new reset token is stored
RequestReset(u) ==
    /\ nextId <= MaxTokens
    /\ last' = [last EXCEPT !.users[u].password_reset_token = nextId,
                            !.answer = AuthResponse("forgot-password", nextId, "ok")]
    /\ nextId' = nextId + 1
    /\ AuthUnchanged

\* reset_password: the user whose stored reset token matches; the token is
\* cleared, every stored refresh token of the user revoked, and all committed
ResetPassword(token) ==
    /\ LET targets == {u \in Users : last.users[u].password_reset_token = token} IN
       IF token = NoId \/ targets = {}
       THEN last' = [last EXCEPT !.answer = AuthResponse("reset-password", token, "400")]
       ELSE LET u == CHOOSE x \in targets : TRUE IN
            last' = [last EXCEPT
                       !.users[u] = User(NoId, @.resets + 1),
                       !.tokens = {IF t.user_id = u THEN [t EXCEPT !.is_revoked = TRUE]
                                   ELSE t : t \in @},
                       !.answer = AuthResponse("reset-password", token, "ok")]
    /\ UNCHANGED nextId
    /\ AuthUnchanged

NextAuth ==
    \/ \E u \in Users : Login(u)
    \/ \E d \in Devices, jti \in 1..MaxTokens : RefreshBegin(d, jti)
    \/ \E d \in Devices : RefreshCommit(d)
    \/ \E jti \in 1..MaxTokens : Logout(jti)
    \/ \E u \in Users : RequestReset(u)
    \/ \E token \in 1..MaxTokens : ResetPassword(token)

SpecAuth == InitAuth /\ [][NextAuth]_vars

-----------------------------------------------------------------------------
(* Accounts and their emails (api/v1/auth.py): register, verify-email,      *)
(* resend-verification and forgot-password, over the rows of users.  The    *)
(* tokens mailed to the user are numbers of one supply.                     *)

Emails == {"a@x", "b@x", "c@x"}

\* the columns of users these handlers read and write
UserRow(email, is_active, is_email_verified, email_verification_token, password_reset_token) ==
    [email |-> email, is_active |-> is_active, is_email_verified |-> is_email_verified,
     email_verification_token |-> email_verification_token,
     password_reset_token |-> password_reset_token]

MessageResponse(request, email, status, message) ==
    [request |-> request, email |-> email, status |-> status, message |-> message]

Mail(users, answer) == [kind |-> "email", users |-> users, answer |-> answer]

VerificationSent == "If an account exists with this email, a verification link will be sent."
AlreadyVerified == "Email is already verified."
ResetSent == "If an account exists with this email, a password reset link will be sent."

\* select(User).where(User.email == email).scalar_one_or_none(); email is unique
ByEmail(users, email) == {u \in users : u.email = email}

InitMail ==
    /\ categories = {}
    /\ items = {}
    /\ orders = {}
    /\ nextId = 1
    /\ pushes = 0
    /\ last = Mail({}, MessageResponse("none", "a@x", 200, ""))

MailUnchanged == UNCHANGED <<categories, items, orders, pushes>>

\* POST /auth/register with an email: 400 if it is taken, otherwise an active,
\* unverified account with a verification token
Register(email) ==
    /\ IF ByEmail(last.users, email) # {}
       THEN /\ last' = [last EXCEPT !.answer =
                          MessageResponse("register", email, 400, "Email already registered")]
            /\ UNCHANGED nextId
       ELSE /\ nextId <= MaxTokens
            /\ last' = Mail(last.users \cup {UserRow(email, TRUE, FALSE, nextId, NoId)},
                            MessageResponse("register", email, 201, ""))
            /\ nextId' = nextId + 1
    /\ MailUnchanged

\* GET /auth/verify-email/{token}: the user holding the token becomes verified
VerifyEmail(token) ==
    /\ LET pending == {u \in last.users : u.email_verification_token = token} IN
       IF token = NoId \/ pending = {}
       THEN last' = [last EXCEPT !.answer =
                       MessageResponse("verify-email", "a@x", 400,
                                       "Invalid or expired verification token")]
       ELSE LET verified_user == CHOOSE u \in pending : TRUE IN
            last' = Mail((last.users \ {verified_user}) \cup
                           {[verified_user EXCEPT !.is_email_verified = TRUE,
                                                  !.email_verification_token = NoId]},
                         MessageResponse("verify-email", verified_user.email, 200,
                                         "Email verified successfully! You can now log in."))
    /\ UNCHANGED nextId
    /\ MailUnchanged

\* the message resend_verification_email answers with, by its three returns
ResendVerificationMessage(users, email) ==
    IF ByEmail(users, email) = {} THEN VerificationSent
    ELSE IF (CHOOSE u \in ByEmail(users, email) : TRUE).is_email_verified THEN AlreadyVerified
    ELSE VerificationSent

\* POST /auth/resend-verification
ResendVerification(email) ==
    /\ LET found == ByEmail(last.users, email)
           message == ResendVerificationMessage(last.users, email) IN
       IF found = {} \/ (CHOOSE u \in found : TRUE).is_email_verified
       THEN /\ last' = [last EXCEPT !.answer =
                          MessageResponse("resend-verification", email, 200, message)]
            /\ UNCHANGED nextId
       ELSE /\ nextId <= MaxTokens
            /\ LET user == CHOOSE u \in found : TRUE IN
               last' = Mail((last.users \ {user}) \cup
                              {[user EXCEPT !.email_verification_token = nextId]},
                            MessageResponse("resend-verification", email, 200, message))
            /\ nextId' = nextId + 1
    /\ MailUnchanged

\* the message forgot_password answers with, by its three returns
ForgotPasswordMessage(users, email) ==
    IF ByEmail(users, email) = {} THEN ResetSent
    ELSE IF ~(CHOOSE u \in ByEmail(users, email) : TRUE).is_active THEN ResetSent
    ELSE ResetSent

\* POST /auth/forgot-password
ForgotPassword(email) ==
    /\ LET found == ByEmail(last.users, email)
           message == ForgotPasswordMessage(last.users, email) IN
       IF found = {} \/ ~(CHOOSE u \in found : TRUE).is_active
       THEN /\ last' = [last EXCEPT !.answer =
                          MessageResponse("forgot-password", email, 200, message)]
            /\ UNCHANGED nextId
       ELSE /\ nextId <= MaxTokens
            /\ LET user == CHOOSE u \in found : TRUE IN
               last' = Mail((last.users \ {user}) \cup
                              {[user EXCEPT !.password_reset_token = nextId]},
                            MessageResponse("forgot-password", email, 200, message))
            /\ nextId' = nextId + 1
    /\ MailUnchanged

NextMail ==
    \/ \E email \in Emails : Register(email)
    \/ \E token \in 1..MaxTokens : VerifyEmail(token)
    \/ \E email \in Emails : ResendVerification(email)
    \/ \E email \in Emails : ForgotPassword(email)

SpecMail == InitMail /\ [][NextMail]_vars

-----------------------------------------------------------------------------
(* Properties *)

Served == last.kind # "none"
Answered == Served /\ last.outcome = "ok"
Stored == Tables(categories, items, orders)
ResultOf(results, opid) == CHOOSE r \in {results[k] : k \in 1..Len(results)} : r.operation_id = opid
OpsOf(batch, entity) == {k \in 1..Len(batch) : batch[k].entity = entity}

\* the dependency order of the entity types
Precedes(e1, e2) ==
    \/ e1 = CATEGORY /\ e2 \in {ITEM, ORDER}
    \/ e1 = ITEM /\ e2 = ORDER

\* C1: every operation of a batch is processed once; no operation is processed
\* before one of an entity type that precedes its own (category, then item, then
\* order), and operations of one entity type are processed in submission order.
C1_Sequencing ==
    Served =>
        LET b == last.batch
            ap == last.applied
        IN /\ Len(ap) = Len(b)
           /\ {ap[k] : k \in 1..Len(ap)} = 1..Len(b)
           /\ \A p, q \in 1..Len(ap) : p < q =>
                /\ ~Precedes(b[ap[q]].entity, b[ap[p]].entity)
                /\ (b[ap[p]].entity = b[ap[q]].entity => ap[p] < ap[q])

\* a batch submitted in the reverse of the dependency order, with two operations
\* of one type, has been processed
C1_Witness ==
    /\ Served
    /\ Len(last.batch) = 4
    /\ last.batch[1].entity = ORDER
    /\ last.batch[2].entity = ITEM /\ last.batch[2].type = DELETE
    /\ last.batch[3].entity = ITEM /\ last.batch[3].type = CREATE
    /\ last.batch[4].entity = CATEGORY
    /\ last.applied = <<4, 2, 3, 1>>


-----------------------------------------------------------------------------
NoDelete(batch) == \A k \in 1..Len(batch) : batch[k].type # DELETE
StoredOf(entity, u, local_id) ==
    CASE entity = CATEGORY -> {c \in categories : c.user_id = u /\ c.local_id = local_id}
      [] entity = ITEM -> {i \in items : i.user_id = u /\ i.local_id = local_id}
      [] entity = ORDER -> {o \in orders : o.user_id = u /\ o.local_id = local_id}

\* C2: when a CREATE for one owner, entity type and local id is submitted twice,
\* in one batch or in a push and its retry, and both are answered with success,
\* both results carry the same server id and exactly one record with that local
\* id is stored afterwards.  (Stated for batches without DELETE operations.)
C2_CreateTwiceIdempotent ==
    (Answered /\ NoDelete(last.batch)) =>
        LET b == last.batch
            u == last.user
        IN /\ \A p, q \in 1..Len(b) :
                (/\ p < q
                 /\ b[p].type = CREATE /\ b[q].type = CREATE
                 /\ b[p].entity = b[q].entity /\ b[p].local_id = b[q].local_id
                 /\ ResultOf(last.results, p).success
                 /\ ResultOf(last.results, q).success)
                => /\ ResultOf(last.results, p).server_id = ResultOf(last.results, q).server_id
                   /\ Cardinality(StoredOf(b[p].entity, u, b[p].local_id)) = 1
           /\ last.first.is =>
                \A p \in 1..Len(b) :
                    (/\ b[p].type = CREATE
                     /\ ResultOf(last.first.results, p).success
                     /\ ResultOf(last.results, p).success)
                    => /\ ResultOf(last.first.results, p).server_id
                            = ResultOf(last.results, p).server_id
                       /\ Cardinality(StoredOf(b[p].entity, u, b[p].local_id)) = 1

\* C3: when a batch is pushed a second time unchanged, every operation that
\* succeeded the first time succeeds again with the same server id, and the
\* stored records after the second push are those stored after the first.
\* (Stated for batches of category and item operations without DELETE.)
C3_RetryIsNoOp ==
    (/\ Answered
     /\ last.first.is
     /\ NoDelete(last.batch)
     /\ OpsOf(last.batch, ORDER) = {}) =>
        /\ \A p \in 1..Len(last.batch) :
              ResultOf(last.first.results, p).success =>
                 ResultOf(last.results, p) = ResultOf(last.first.results, p)
        /\ Stored = last.first.post

-----------------------------------------------------------------------------
\* the batch is a CREATE of a category and a CREATE of an item whose categoryId
\* is the category's local id, at positions pc and pi
IsCategoryWithItem(b, pc, pi) ==
    /\ Len(b) = 2
    /\ {pc, pi} = {1, 2}
    /\ b[pc].entity = CATEGORY /\ b[pc].type = CREATE
    /\ b[pi].entity = ITEM /\ b[pi].type = CREATE
    /\ HasCategoryRef(b[pi].data)
    /\ b[pi].data.categoryId = Ref(NoId, b[pc].local_id)

\* both operations succeeded and the stored item is linked to the category
BothSucceeded(pc, pi) ==
    /\ last.outcome = "ok"
    /\ ResultOf(last.results, pc).success
    /\ ResultOf(last.results, pi).success
    /\ last.success_count = 2
    /\ last.error_count = 0
    /\ \E i \in items :
          /\ i.id = ResultOf(last.results, pi).server_id
          /\ i.user_id = last.user
          /\ i.local_id = last.batch[pi].local_id
          /\ i.category_id = ResultOf(last.results, pc).server_id

\* the records of the user stored before the request under a local id
CategoriesBefore(local_id) ==
    {c \in last.pre.cats : c.user_id = last.user /\ c.local_id = local_id}
ItemsBefore(local_id) ==
    {i \in last.pre.items : i.user_id = last.user /\ i.local_id = local_id}

PushedLocalIds(batch, entity) ==
    {batch[k].local_id : k \in {j \in OpsOf(batch, entity) : batch[j].type # DELETE}}

\* the items stored before the request that the batch does not name
UnnamedItems ==
    {i \in last.pre.items : i.user_id = last.user
                            /\ i.local_id \notin PushedLocalIds(last.batch, ITEM)}

C6_CleanupPerType ==
    Served =>
        /\ OpsOf(last.batch, CATEGORY) = {} => last.orphans.cats = {}
        /\ OpsOf(last.batch, ITEM) = {} => (last.orphans.items = {} /\ last.cascaded = {})
        /\ OpsOf(last.batch, ORDER) = {} => last.orphans.orders = {}

\* a batch of item operations only has run its item cleanup while a category
\* that no item references and an order were stored; both are still stored
C6_Witness ==
    /\ Answered
    /\ last.batch # <<>>
    /\ OpsOf(last.batch, ITEM) = 1..Len(last.batch)
    /\ last.orphans.items # {}
    /\ \E c \in last.pre.cats :
          /\ c \in categories
          /\ ~\E i \in last.pre.items \cup items : i.category_id = c.id
    /\ last.pre.orders # {}
    /\ orders = last.pre.orders

\* C7: orphan cleanup deletes no category that an item still references, so no
\* item is removed through the deletion of an orphan category.
C7_ReferencedCategorySurvives ==
    Answered => last.cascaded = {}

\* C8: a push or full sync with an empty operation list is answered and leaves
\* every category, item and order as it was.
C8_EmptyPushChangesNothing ==
    (Served /\ last.batch = <<>>) =>
        /\ last.outcome = "ok"
        /\ Stored = last.pre
        /\ last.orphans = NoIds

\* an empty full sync was served while categories, items and orders were stored
C8_Witness ==
    /\ Served
    /\ last.kind = "full"
    /\ last.batch = <<>>
    /\ categories # {} /\ items # {} /\ orders # {}

\* C9: a push response holds exactly one result for each submitted operation,
\* under that operation's id; successCount + errorCount is the number of
\* operations and successCount is the number of successful results.
C9_OneResultPerOperation ==
    Answered =>
        LET n == Len(last.batch)
            res == last.results
        IN /\ Len(res) = n
           /\ \A k \in 1..n : Cardinality({j \in 1..Len(res) : res[j].operation_id = k}) = 1
           /\ last.success_count + last.error_count = n
           /\ last.success_count = Cardinality({j \in 1..Len(res) : res[j].success})

\* a response that holds the result of an operation that raised and the result
\* of one that succeeded
C9_Witness ==
    /\ Answered
    /\ Len(last.batch) = 2
    /\ ~last.results[1].success
    /\ last.results[2].success
    /\ last.error_count = 1

\* C10: a failing operation does not abort the batch: the push is still
\* answered (with the failure recorded as an unsuccessful result) and committed.
C10_FailureDoesNotAbort ==
    (Served /\ last.error_count > 0) => last.outcome = "ok"

-----------------------------------------------------------------------------
\* the records of an entity type stored before the request
Before(entity) ==
    CASE entity = CATEGORY -> last.pre.cats
      [] entity = ITEM -> last.pre.items
      [] entity = ORDER -> last.pre.orders

\* the lookup of UPDATE and DELETE finds a record of the user stored before
TargetFound(op) ==
    \E r \in Before(op.entity) :
        /\ r.user_id = last.user
        /\ ((IsValidUuid(op.entity_id) /\ r.id = op.entity_id) \/ r.local_id = op.local_id)

OnlyDeletes(batch) == batch # <<>> /\ \A k \in 1..Len(batch) : batch[k].type = DELETE
AllSucceeded ==
    /\ last.outcome = "ok"
    /\ last.success_count = Len(last.batch)
    /\ \A k \in 1..Len(last.results) : last.results[k].success

\* C11: a batch of DELETE operations none of whose targets is found by server
\* id or by local id reports success for each and leaves every stored record
\* as it was; and pushing a DELETE operation a second time leaves the stored
\* records as the first push left them.
C11_DeleteOfAbsentTarget ==
    /\ (/\ Served
        /\ OnlyDeletes(last.batch)
        /\ \A k \in 1..Len(last.batch) : ~TargetFound(last.batch[k]))
       => (AllSucceeded /\ Stored = last.pre)
    /\ (Served /\ last.first.is /\ OnlyDeletes(last.batch) /\ Len(last.batch) = 1)
       => Stored = last.first.post

\* a DELETE by server id is repeated after the record it names was deleted,
\* while other records are stored
C11_Witness ==
    /\ Answered
    /\ last.first.is
    /\ OnlyDeletes(last.batch)
    /\ Len(last.batch) = 1
    /\ IsValidUuid(last.batch[1].entity_id)
    /\ last.batch[1].entity_id < nextId
    /\ ~TargetFound(last.batch[1])
    /\ Stored # Tables({}, {}, {})
    /\ Stored = last.first.post

-----------------------------------------------------------------------------
\* the payload's category reference names no category of the user stored before
UnresolvedRef(op) ==
    /\ HasCategoryRef(op.data)
    /\ ~\E c \in last.pre.cats :
          /\ c.user_id = last.user
          /\ \/ (IsValidUuid(op.data.categoryId.sid) /\ c.id = op.data.categoryId.sid)
             \/ c.local_id = op.data.categoryId.lid

\* C12: in a batch without category operations, an item CREATE or UPDATE whose
\* category reference resolves to no category of the owner is answered as a
\* failed result (and the push is answered).
C12_UnresolvedCategoryFails ==
    (Served /\ OpsOf(last.batch, CATEGORY) = {}) =>
        \A k \in OpsOf(last.batch, ITEM) :
            (last.batch[k].type # DELETE /\ UnresolvedRef(last.batch[k]))
            => (last.outcome = "ok" /\ ~ResultOf(last.results, k).success)

-----------------------------------------------------------------------------
\* C13: a push leaves every category, item and order (with its lines) that was
\* stored for another owner before the push stored and unchanged.
C13_OtherOwnersUntouched ==
    Served =>
        /\ \A c \in last.pre.cats : c.user_id # last.user => c \in categories
        /\ \A i \in last.pre.items : i.user_id # last.user => i \in items
        /\ \A o \in last.pre.orders : o.user_id # last.user => o \in orders

-----------------------------------------------------------------------------
\* the single operation of the batch creates a new order for the user under a
\* client-supplied code that an order of another owner already carries
CodeTakenByOther ==
    /\ Len(last.batch) = 1
    /\ last.batch[1].entity = ORDER /\ last.batch[1].type = CREATE
    /\ HasOrderCode(last.batch[1].data)
    /\ \E o \in last.pre.orders :
          o.user_id # last.user /\ o.order_id = ClientCode(last.batch[1].data.orderId)
    /\ ~\E o \in last.pre.orders :
          o.user_id = last.user /\ o.local_id = last.batch[1].local_id

\* C14: no two stored orders share an order code; and when an owner pushes a
\* new order under a code that another owner's order carries, the operation
\* succeeds and the order is stored under a different, disambiguated code.
C14_OrderCodeCollision ==
    /\ \A o1, o2 \in orders : o1.order_id = o2.order_id => o1.id = o2.id
    /\ (Served /\ CodeTakenByOther) =>
          /\ last.outcome = "ok"
          /\ ResultOf(last.results, 1).success
          /\ \E o \in orders :
                /\ o.id = ResultOf(last.results, 1).server_id
                /\ o.user_id = last.user
                /\ o.order_id.base = last.batch[1].data.orderId
                /\ o.order_id # ClientCode(last.batch[1].data.orderId)

-----------------------------------------------------------------------------
\* C15: when the commit at the end of a push fails, the stored categories,
\* items and orders are those stored before the push: no creation, update,
\* deletion or orphan deletion of the batch is visible.
C15_CommitFailureLeavesNothing ==
    (Served /\ last.outcome = "commit failed") => Stored = last.pre

\* the commit failed after the push had created a record and marked an orphan
C15_Witness ==
    /\ Served
    /\ last.outcome = "commit failed"
    /\ \E k \in 1..Len(last.results) :
          last.results[k].success /\ last.results[k].server_id >= nextId
    /\ last.orphans.items # {}
    /\ Stored = last.pre

\* what the database stores for user u
StoredFor(u) ==
    Tables({c \in categories : c.user_id = u}, {i \in items : i.user_id = u},
           {o \in orders : o.user_id = u})

\* C16: when full_sync answers, its snapshot equals the categories, items and
\* orders (with their lines) the database stores for the user after the push
C16_SnapshotEqualsStored ==
    (Answered /\ last.kind = "full") => last.snapshot = StoredFor(last.user)

\* the orders the apply request addressed, as stored before it
Addressed ==
    {o \in last.pre.orders : /\ o.user_id = last.user
                             /\ (o.id = last.target.sid \/ o.order_id = last.target.code)}

\* the lines of order o that name item i
LinesOn(o, i) == {n \in 1..Len(o.lines) : o.lines[n].item_id.sid = i.id}

RECURSIVE Ordered(_, _)
Ordered(o, ns) ==
    IF ns = {} THEN 0
    ELSE LET n == CHOOSE m \in ns : TRUE IN o.lines[n].quantity + Ordered(o, ns \ {n})

\* C17: applying an order that is in status received sets its status to
\* stock_updated and adds to each item of the user that its lines name the
\* quantity those lines order; no other item, order or category changes
C17_ApplyReceived ==
    (last.kind = "apply" /\ \E o \in Addressed : o.status = "received") =>
        \E o \in Addressed :
            /\ last.outcome = "ok"
            /\ orders = Replace(last.pre.orders, o, [o EXCEPT !.status = "stock_updated"])
            /\ items = {[i EXCEPT !.quantity =
                            @ + (IF i.user_id = last.user THEN Ordered(o, LinesOn(o, i)) ELSE 0)]
                        : i \in last.pre.items}
            /\ categories = last.pre.cats

\* an applied order with two lines on one item, one line on a second item
C17_Witness ==
    /\ last.kind = "apply" /\ last.outcome = "ok"
    /\ \E o \in Addressed, i, j \in last.pre.items :
           /\ Cardinality(LinesOn(o, i)) = 2
           /\ Cardinality(LinesOn(o, j)) = 1
           /\ \E k \in items : k.id = i.id /\ k.quantity = i.quantity + 3
           /\ \E k \in items : k.id = j.id /\ k.quantity = j.quantity + 2

\* C18: applying an order in any status other than received is answered with
\* an error (400) and changes no order, item or category
C18_ApplyRejected ==
    (last.kind = "apply" /\ \E o \in Addressed : o.status # "received") =>
        /\ last.outcome \in {"400", "error"}
        /\ Tables(categories, items, orders) = last.pre

\* a rejected apply on an order whose lines name a stored item of the user
C18_Witness ==
    /\ last.kind = "apply" /\ last.outcome = "400"
    /\ \E o \in Addressed, i \in items :
           /\ o.status = "partially_received"
           /\ i.user_id = last.user /\ LinesOn(o, i) # {}

\* what the push of batch by u does when no other request runs beside it
Alone(u, batch) == SyncPushRun(RaceCategories, {}, {}, 3, u, batch)

\* a record without its server id
Faceless(tbl) == {[f \in (DOMAIN r) \ {"id"} |-> r[f]] : r \in tbl}
FacelessOf(tbls, u) ==
    Tables(Faceless({c \in tbls.cats : c.user_id = u}),
           Faceless({i \in tbls.items : i.user_id = u}),
           Faceless({o \in tbls.orders : o.user_id = u}))

Successes(results) == [n \in 1..Len(results) |-> results[n].success]

SameAsAlone(t) ==
    LET alone == Alone(t.user, t.batch) IN
    /\ (t.outcome = "ok") = alone.ok
    /\ t.outcome = "ok" => Successes(t.s.results) = Successes(alone.results)
    /\ FacelessOf(Tables(categories, items, orders), t.user)
           = FacelessOf(IF alone.ok THEN alone.D
                        ELSE Tables(RaceCategories, {}, {}), t.user)

\* C19: when the pushes of two different users have both ended, however their
\* steps were interleaved, each user has the results and the stored records
\* that its push yields when it runs alone
C19_UsersIndependent ==
    (/\ last.kind = "race"
     /\ \A d \in Devices : last.tx[d].phase = "done"
     /\ last.tx["A"].user # last.tx["B"].user)
        => \A d \in Devices : SameAsAlone(last.tx[d])

\* C20: the orphan cleanup of a push never deletes a row written by a push
\* that has not committed; it deletes the rows it finds committed, whichever
\* request of the user wrote them and whenever
C20_CleanupSeesCommittedOnly ==
    last.kind = "race" =>
        \A d, e \in Devices :
            InFlight(last.tx[e]) =>
                Ids(Uncommitted(last.tx[e]).items) \cap last.tx[d].s.orphans.items = {}

\* device B's push has committed and is not answered yet; device A's push, of
\* the same user, began while B's was in flight or the other way round, its
\* batch omits the item B created, and its cleanup has deleted that item
C20_Witness ==
    /\ last.kind = "race"
    /\ last.tx["A"].user = last.tx["B"].user
    /\ last.tx["B"].phase = "committed"
    /\ last.tx["A"].phase = "committed"
    /\ "B" \in last.tx["A"].concurrent \/ "A" \in last.tx["B"].concurrent
    /\ \E r \in {last.tx["B"].s.results[n] : n \in 1..Len(last.tx["B"].s.results)} :
           /\ r.success
           /\ r.server_id \in last.tx["A"].s.orphans.items
           /\ r.server_id \notin Ids(items)

-----------------------------------------------------------------------------
\* the stored records of an entity type
StoredOfType(entity) ==
    CASE entity = CATEGORY -> categories
      [] entity = ITEM -> items
      [] entity = ORDER -> orders

\* the records of an entity type that the orphan cleanup of the request deleted,
\* itself or through the foreign key of a category it deleted
CleanedUp(entity) ==
    CASE entity = CATEGORY -> last.orphans.cats
      [] entity = ITEM -> last.orphans.items \cup last.cascaded
      [] entity = ORDER -> last.orphans.orders

\* a DELETE of the batch names the record sid of the entity type: by its server
\* id, by the local id it was stored with, or by the local id of the operation
\* that wrote it
TargetedByDelete(entity, sid, local_id) ==
    \E j \in 1..Len(last.batch) :
        /\ last.batch[j].type = DELETE
        /\ last.batch[j].entity = entity
        /\ \/ last.batch[j].entity_id = sid
           \/ last.batch[j].local_id = local_id
           \/ \E r \in Before(entity) : r.id = sid /\ r.local_id = last.batch[j].local_id

\* C21: when a push has answered, no record that one of its CREATE or UPDATE
\* operations reports as written (success, with the record's server id) has
\* been deleted by the orphan cleanup of that push, unless a DELETE of the same
\* batch names it
C21_WrittenRecordsSurvive ==
    (Answered /\ last.kind = "push") =>
        \A k \in 1..Len(last.results) :
            LET r == last.results[k]
                op == last.batch[r.operation_id]
            IN (r.success /\ op.type # DELETE
                /\ ~TargetedByDelete(op.entity, r.server_id, op.local_id))
               => r.server_id \notin CleanedUp(op.entity)

-----------------------------------------------------------------------------
\* the batch carries a CREATE for the entity type and local id
Creates(batch, entity, local_id) ==
    \E k \in 1..Len(batch) :
        batch[k].type = CREATE /\ batch[k].entity = entity /\ batch[k].local_id = local_id

\* C22: when two pushes of one user that were in flight together have both
\* committed, each entity type and local id for which both batches carry a
\* CREATE has exactly one stored record of that user
C22_ConcurrentCreateOnce ==
    (/\ last.kind = "race"
     /\ \A d \in Devices : last.tx[d].outcome = "ok"
     /\ last.tx["A"].user = last.tx["B"].user
     /\ "B" \in last.tx["A"].concurrent \/ "A" \in last.tx["B"].concurrent)
        => \A entity \in {CATEGORY, ITEM, ORDER}, l \in LocalIds :
               (Creates(last.tx["A"].batch, entity, l) /\ Creates(last.tx["B"].batch, entity, l))
                   => Cardinality({r \in StoredOfType(entity) :
                                     r.user_id = last.tx["A"].user /\ r.local_id = l}) = 1

-----------------------------------------------------------------------------
\* the record of the user, stored before the request, that carries the server id
\* of the operation
ByServerId(op) ==
    {r \in Before(op.entity) : r.user_id = last.user /\ r.id = op.entity_id}

\* C23: a push of one UPDATE or DELETE whose server id is that of a stored
\* record of the user resolves that record, whichever record carries the
\* operation's local id: the operation succeeds, an UPDATE answers with that
\* server id, and a DELETE removes that record and no other of its type
C23_ServerIdPreferred ==
    (/\ Served /\ last.kind = "push" /\ Len(last.batch) = 1
     /\ last.batch[1].type \in {UPDATE, DELETE}
     /\ IsValidUuid(last.batch[1].entity_id)
     /\ ByServerId(last.batch[1]) # {})
        => LET op == last.batch[1] IN
           /\ last.outcome = "ok"
           /\ Len(last.results) = 1
           /\ last.results[1].success
           /\ op.type = UPDATE => last.results[1].server_id = op.entity_id
           /\ op.type = DELETE =>
                  {r.id : r \in StoredOfType(op.entity)}
                      = {r.id : r \in Before(op.entity)} \ {op.entity_id}

-----------------------------------------------------------------------------
\* the stored record carries the fields of the payload that the model keeps
CarriesPayload(entity, r, data) ==
    /\ (entity = CATEGORY /\ Has(data, "name")) => r.name = data.name
    /\ (entity = ITEM /\ Has(data, "quantity")) => r.quantity = data.quantity

\* C24: a push of one category or item UPDATE whose target is found neither by
\* server id nor by local id is answered successfully with the server id of a
\* new record of the user that carries the operation's local id and the
\* payload's fields
C24_UpdateOfAbsentCreates ==
    (/\ Served /\ last.kind = "push" /\ Len(last.batch) = 1
     /\ last.batch[1].type = UPDATE
     /\ last.batch[1].entity \in {CATEGORY, ITEM}
     /\ ~TargetFound(last.batch[1]))
        => LET op == last.batch[1] IN
           /\ last.outcome = "ok"
           /\ Len(last.results) = 1
           /\ last.results[1].success
           /\ \E r \in StoredOfType(op.entity) :
                  /\ r.id = last.results[1].server_id
                  /\ r.id \notin {b.id : b \in Before(op.entity)}
                  /\ r.user_id = last.user
                  /\ r.local_id = op.local_id
                  /\ CarriesPayload(op.entity, r, op.data)

-----------------------------------------------------------------------------
\* the attributes of r and r2 whose payload keys are absent from data are equal
AbsentKeysKept(entity, r, r2, data) ==
    /\ r2.local_id = r.local_id
    /\ ~Has(data, "userId") => r2.user_id = r.user_id
    /\ (entity = CATEGORY /\ ~Has(data, "name")) => r2.name = r.name
    /\ (entity = ITEM /\ ~Has(data, "categoryId")) => r2.category_id = r.category_id
    /\ (entity = ITEM /\ ~Has(data, "quantity")) => r2.quantity = r.quantity

\* the push was one CREATE or UPDATE of a category or item that was answered
\* successfully with the server id of a record stored before
UpdatedExisting ==
    /\ Answered /\ last.kind = "push" /\ Len(last.batch) = 1
    /\ last.batch[1].type \in {CREATE, UPDATE}
    /\ last.batch[1].entity \in {CATEGORY, ITEM}
    /\ last.results[1].success
    /\ \E r \in Before(last.batch[1].entity) : r.id = last.results[1].server_id

\* C25: when a push of one CREATE or UPDATE has updated a stored category or
\* item, every attribute of that record whose key is absent from the payload
\* has the value it had before the push
C25_AbsentKeysKeepValue ==
    UpdatedExisting =>
        LET op == last.batch[1] IN
        \A r \in Before(op.entity), r2 \in StoredOfType(op.entity) :
            (r.id = last.results[1].server_id /\ r2.id = r.id)
                => AbsentKeysKept(op.entity, r, r2, op.data)

\* an item with quantity 1 was updated by a payload without the key "quantity"
C25_Witness ==
    /\ UpdatedExisting
    /\ last.batch[1].entity = ITEM
    /\ ~Has(last.batch[1].data, "quantity")
    /\ \E r \in last.pre.items, r2 \in items :
           /\ r.id = last.results[1].server_id /\ r2.id = r.id
           /\ r.quantity = 1
           /\ r2.category_id # r.category_id

-----------------------------------------------------------------------------
\* C26: every category, item and order stored before a push and still stored
\* after it has the owner it had before
C26_OwnerNeverChanges ==
    Served =>
        \A entity \in {CATEGORY, ITEM, ORDER} :
            \A r \in Before(entity), r2 \in StoredOfType(entity) :
                r2.id = r.id => r2.user_id = r.user_id

-----------------------------------------------------------------------------
\* the push was one CREATE or UPDATE of an order that was answered successfully
\* with the server id of an order stored before
UpdatedExistingOrder ==
    /\ Answered /\ last.kind = "push" /\ Len(last.batch) = 1
    /\ last.batch[1].type \in {CREATE, UPDATE}
    /\ last.batch[1].entity = ORDER
    /\ last.results[1].success
    /\ \E o \in last.pre.orders : o.id = last.results[1].server_id

\* C27: when a push of one order operation has updated a stored order and its
\* payload has the key "items", the order, as long as it is stored, has exactly
\* the lines of the payload, in their order
C27_LinesReplaced ==
    (UpdatedExistingOrder /\ Has(last.batch[1].data, "items"))
        => \A o \in orders :
               o.id = last.results[1].server_id => o.lines = last.batch[1].data.items

-----------------------------------------------------------------------------
\* the orders of the user stored before the push under the code of the payload
ByCode(op) ==
    {o \in last.pre.orders :
        o.user_id = last.user /\ o.order_id = ClientCode(op.data.orderId)}

\* the push is one order CREATE whose local id no stored order of the user
\* carries and whose code is that of a stored order of the user
CreateByCode ==
    /\ Served /\ last.kind = "push" /\ Len(last.batch) = 1
    /\ last.batch[1].type = CREATE /\ last.batch[1].entity = ORDER
    /\ HasOrderCode(last.batch[1].data)
    /\ ~\E o \in last.pre.orders :
           o.user_id = last.user /\ o.local_id = last.batch[1].local_id
    /\ ByCode(last.batch[1]) # {}

\* the operation is answered successfully with the server id of the order that
\* carries the code, and the push stores no order that was not stored before
AnsweredByCode ==
    /\ last.outcome = "ok"
    /\ last.results[1].success
    /\ last.results[1].server_id \in {o.id : o \in ByCode(last.batch[1])}
    /\ {o.id : o \in orders} \subseteq {o.id : o \in last.pre.orders}

\* C28: an order CREATE with an unknown local id and the code of a stored order
\* of the user is answered with that order's server id, inserts no order, and
\* leaves that order stored
C28_CreateByCodeInPlace ==
    CreateByCode =>
        /\ AnsweredByCode
        /\ \E o \in orders : o.id = last.results[1].server_id

-----------------------------------------------------------------------------
\* C29: every stored item references a stored category, and that category
\* belongs to the item's owner
C29_ItemsReferenceOwnCategory ==
    \A i \in items :
        \E c \in categories : c.id = i.category_id /\ c.user_id = i.user_id

-----------------------------------------------------------------------------
\* C30: for each owner and entity type, no two stored records carry the same
\* client-local id (NoLocal stands for NULL)
C30_LocalIdsUnique ==
    \A entity \in {CATEGORY, ITEM, ORDER} :
        \A r1, r2 \in StoredOfType(entity) :
            (r1.user_id = r2.user_id /\ r1.local_id = r2.local_id /\ r1.local_id # NoLocal)
                => r1.id = r2.id

-----------------------------------------------------------------------------
\* C31: every stored order line names a stored order
C31_LinesBelongToOrders ==
    last.kind = "rows" =>
        \A r \in last.order_items : \E o \in last.orders : o.id = r.order_id

\* a push removed an order that had lines, by a DELETE operation
C31_Witness ==
    /\ last.kind = "rows"
    /\ \E k \in 1..Len(last.batch) : last.batch[k].type = DELETE
    /\ \E o \in last.before.orders :
          /\ o.id \notin {p.id : p \in last.orders}
          /\ \E r \in last.before.order_items : r.order_id = o.id

-----------------------------------------------------------------------------
\* C32: every stored item has a quantity that is not negative
C32_QuantitiesNonNegative == \A i \in items : i.quantity >= 0

-----------------------------------------------------------------------------
\* C33: the quantities of an order are added to the stock at most once.  Under
\* SpecOnce the one order and the one item are never deleted and the stock
\* changes by applications of that order only, so each item holds at most its
\* first quantity plus what the order's lines on it order
C33_AppliedAtMostOnce ==
    \A i \in items, j \in OnceItems, o \in OnceOrders :
        i.id = j.id => i.quantity <= j.quantity + Ordered(o, LinesOn(o, j))

-----------------------------------------------------------------------------
\* C34: whatever lastSyncAt and includeDeleted are, sync_pull answers with
\* exactly the categories, items and orders (with their lines) stored for the
\* requesting user and with no deleted ids, and leaves the store as it was
C34_PullReturnsOwned ==
    last.kind = "pull" =>
        /\ last.outcome = "ok"
        /\ last.snapshot = StoredFor(last.user)
        /\ last.deleted_ids = <<>>
        /\ Stored = last.pre

\* a pull with a lastSyncAt and includeDeleted = FALSE by a user who has an order
\* with a line, while another user has records too
C34_Witness ==
    /\ last.kind = "pull"
    /\ last.last_sync_at = "later" /\ ~last.include_deleted
    /\ \E o \in last.snapshot.orders : Len(o.lines) = 1
    /\ \E c \in categories : c.user_id # last.user

-----------------------------------------------------------------------------
\* C35: an item is out of stock exactly when its quantity is at most 0, low on
\* stock exactly when its quantity is above 0 and below its minimum stock, needs
\* attention exactly when one of the two holds, and is never both; the listing
\* of items needing attention holds the active items that need attention
C35_StockStatus ==
    last.kind = "status" =>
        LET q == last.item.quantity
            m == last.item.minimum_stock
            st == last.status
        IN /\ st.is_out_of_stock <=> (q <= 0)
           /\ st.is_low_stock <=> (0 < q /\ q < m)
           /\ st.needs_attention <=> (st.is_out_of_stock \/ st.is_low_stock)
           /\ ~(st.is_out_of_stock /\ st.is_low_stock)
           /\ st.listed <=> (last.item.is_active /\ st.needs_attention)

\* an item with no stock and a positive minimum was evaluated
C35_Witness ==
    /\ last.kind = "status"
    /\ last.item.quantity <= 0 /\ last.item.minimum_stock > 0
    /\ last.status.is_out_of_stock /\ ~last.status.is_low_stock

-----------------------------------------------------------------------------
\* C36: no refresh token is exchanged for a new pair more than once
C36_ExchangedAtMostOnce ==
    last.kind = "auth" =>
        \A e1, e2 \in last.exchanged : e1.jti = e2.jti => e1 = e2

-----------------------------------------------------------------------------
\* C37: a refresh token created before a completed password reset of its user
\* is not accepted by refresh; and when a reset has just succeeded, its reset
\* token is stored for no user
C37_ResetRevokesSessions ==
    last.kind = "auth" =>
        /\ \A t \in last.tokens :
               t.resets < last.users[t.user_id].resets => ~Accepted(last.tokens, t.jti)
        /\ (last.answer.request = "reset-password" /\ last.answer.outcome = "ok")
               => \A u \in Users : last.users[u].password_reset_token # last.answer.token

\* C38: forgot-password and resend-verification answer an email with the
\* response they give when no account exists for it, whatever account there is
C38_SameAnswerWithoutAccount ==
    last.kind = "email" =>
        /\ last.answer.request = "forgot-password"
               => /\ last.answer.status = 200
                  /\ last.answer.message = ForgotPasswordMessage({}, last.answer.email)
        /\ last.answer.request = "resend-verification"
               => /\ last.answer.status = 200
                  /\ last.answer.message = ResendVerificationMessage({}, last.answer.email)

====
